---- MODULE Spec2Model ----
(***************************************************************************)
(* A model of the Phoenix SDR signal relay (src/src/signal_relay.c):       *)
(* the per-client ring buffer, the client list of a broadcast stream and   *)
(* its drain pass, the stream sources, and the splitter control channel.   *)
(*                                                                         *)
(* Sizes are scaled: the ring capacity, the drain chunk and the recv       *)
(* buffer keep the source's order chunk <= recv <= capacity.  Producer      *)
(* bytes are numbered 1, 2, 3, ... in the order the producer wrote them    *)
(* (the relay never inspects them), so order and loss are visible.         *)
(***************************************************************************)
EXTENDS Integers, Sequences, FiniteSets, TLC

(* ---- bounds of the model ---- *)
Capacity == 2
ChunkSize == 1
RecvSize == 2
MaxProduced == 3
MaxStalls == 1
MaxServed == 2
MaxFd == 3
MaxClients == 2
MaxSplitters == 2
PoolPorts == 4
SplitMaxFd == 6
MaxFwd == 1
SplitAt == 9
SplitProduced == 1
MaxAccepts == 4
AllocAccepts == 6
CapAccepts == 5
MaxEdges == 2
MaxServices == 3
EdgeTimeout == 2
StatusInterval == 2
MaxTime == 4
RegMaxFd == 3
RegAccepts == 3
IdleAccepts == 3
AgainAccepts == 3
StopAccepts == 4
LimitAccepts == 3
FrameAccepts == 2
MaxLine == 4
MaxTyped == 1
MaxPayload == 3

(* ---- program constants ---- *)
MAGIC_FT32 == 1179923250
DETECTOR_RATE == 50000
DISPLAY_RATE == 12000
RENDEZVOUS_PORT == 3000
SPLITTER_PORT_BASE == 3001
SPLITTER_PORT_MAX == SPLITTER_PORT_BASE + PoolPorts - 1
RECV_BUF_SIZE == 8192

VARIABLES
    fds,            \* descriptor table: fd -> what the descriptor is, "free" when closed
    list,           \* a client_list_t (g_detector_clients or g_display_clients)
    source_fd,      \* the list's g_*_source_fd
    produced,       \* ghost: number of bytes the producer(s) of the list wrote so far
    wire,           \* ghost: fd -> the bytes the consumer socket accepted, in order
    joined,         \* ghost: fd -> value of produced when the consumer was attached
    stalls,         \* ghost: number of partial / would-block sends so far
    send_errors,    \* ghost: number of sends that failed with a hard error so far
    short_writes,   \* ghost: number of client_buffer_write calls that returned less than len
    residual,       \* ghost: the bytes buffered for the consumer on GoodFd when the source was last lost
    g_splitters,    \* slot index -> splitter_conn_t
    g_splitter_count,
    g_next_splitter_port,
    in_flight,      \* slot index -> characters the producer sent on the control socket, not yet received
    c2p_in,         \* ghost: slot index -> the bytes received from the slot's clients
    c2p_out,        \* ghost: slot index -> the characters the producer's socket accepted from splitter_send_sdr
    p2c_in,         \* ghost: slot index -> the payloads of the s frames processed with a client attached
    p2c_out,        \* ghost: slot index -> the bytes the clients' sockets accepted
    rejected,       \* ghost: slot index -> a connection to the control port was closed at accept
    peer_lost,      \* ghost: slot index -> the sides whose EOF or error the relay saw
    accepted,       \* ghost: connections accepted while splitter slots are served
    exch,           \* ghost: what the last step handled (a message and the replies sent, or
                    \* a sweep and the number of edges it removed)
    g_edge_nodes,   \* the edge_node_t entries 0..g_edge_count-1
    g_services,     \* the service_entry_t entries 0..g_service_count-1
    now,            \* what time(NULL) returns, in seconds since the model's origin of time
    g_last_status_time

(* the broadcast stream's variables and the splitter slots' variables *)
bvars == <<list, source_fd, produced, wire, joined, stalls, send_errors, short_writes, residual>>
fwd == <<c2p_in, c2p_out, p2c_in, p2c_out>>
svars == <<g_splitters, g_splitter_count, g_next_splitter_port, in_flight, fwd, rejected,
           peer_lost>>
(* the registry's variables and the clock *)
rvars == <<g_edge_nodes, g_services, now, g_last_status_time>>
vars == <<fds, bvars, svars, accepted, exch, rvars>>

NOFD == -1

(* no control message was handled by the step *)
NoExch == [kind |-> "none", slot |-> -1, msg |-> <<>>, sent |-> <<>>, err |-> FALSE]
(* ghost of a step whose recv() had nothing to take, where a specification notes it *)
AgainExch == [kind |-> "again", slot |-> -1, msg |-> <<>>, sent |-> <<>>, err |-> FALSE]

(* a descriptor: what it is, the local port it belongs to, the stream it carries *)
Desc(kind, port, pipe) == [kind |-> kind, port |-> port, pipe |-> pipe]
FreeDesc == Desc("free", 0, "none")
(* descriptor 0 is the process's stdin; the other descriptors are free at start *)
InitFds(maxfd) == [f \in 0..maxfd |-> IF f = 0 THEN Desc("stdin", 0, "none") ELSE FreeDesc]

Min(a, b) == IF a < b THEN a ELSE b
Max(a, b) == IF a > b THEN a ELSE b
Range(s) == {s[i] : i \in 1..Len(s)}

(* A send()/recv() result: EAGAIN, a hard error, or a byte count. *)
EAGAIN == -1
EFAIL == -2

(***************************************************************************)
(* Descriptor table.  accept()/socket() return the lowest free descriptor. *)
(***************************************************************************)
FreeIn(t) == {f \in DOMAIN t : t[f].kind = "free"}
LowestIn(t) == IF FreeIn(t) = {} THEN -1
               ELSE CHOOSE f \in FreeIn(t) : \A g \in FreeIn(t) : f <= g
FreeFds == FreeIn(fds)
LowestFree == LowestIn(fds)
Close(t, f) == IF f \in DOMAIN t THEN [t EXCEPT ![f] = FreeDesc] ELSE t

(***************************************************************************)
(* Client ring buffer                                                      *)
(***************************************************************************)
(* written is a ghost: the number of bytes handed to client_buffer_write so far *)
client_buffer_create ==
    [data |-> [i \in 0..(Capacity - 1) |-> 0], capacity |-> Capacity,
     write_idx |-> 0, read_idx |-> 0, count |-> 0, overflows |-> 0, bytes_sent |-> 0,
     written |-> 0]

(* a ring that refuses the new byte when full instead of discarding the oldest *)
WriteByte_NoOverwrite(cb, b) ==
    IF cb.count >= cb.capacity THEN cb
    ELSE [cb EXCEPT !.count = @ + 1, !.data[cb.write_idx] = b,
                    !.write_idx = (@ + 1) % cb.capacity]

(* a ring that discards the oldest byte without counting it *)
WriteByte_Uncounted(cb, b) ==
    LET c1 == IF cb.count >= cb.capacity
              THEN [cb EXCEPT !.read_idx = (@ + 1) % cb.capacity]
              ELSE [cb EXCEPT !.count = @ + 1]
    IN [c1 EXCEPT !.data[cb.write_idx] = b, !.write_idx = (@ + 1) % cb.capacity,
                  !.written = @ + 1]

WriteByte(cb, b) ==
    LET c1 == IF cb.count >= cb.capacity
              THEN [cb EXCEPT !.read_idx = (@ + 1) % cb.capacity, !.overflows = @ + 1]
              ELSE [cb EXCEPT !.count = @ + 1]
    IN [c1 EXCEPT !.data[cb.write_idx] = b, !.write_idx = (@ + 1) % cb.capacity,
                  !.written = @ + 1]

RECURSIVE WriteLoop(_, _, _)
WriteLoop(cb, bytes, written) ==
    IF written < Len(bytes)
    THEN WriteLoop(WriteByte(cb, bytes[written + 1]), bytes, written + 1)
    ELSE [cb |-> cb, ret |-> written]

client_buffer_write(cb, bytes) == WriteLoop(cb, bytes, 0)

(* a read that hands out bytes without moving the read index *)
RECURSIVE ReadLoop_KeepsIndex(_, _, _)
ReadLoop_KeepsIndex(cb, to_read, out) ==
    IF Len(out) < to_read
    THEN ReadLoop_KeepsIndex(cb, to_read, Append(out, cb.data[cb.read_idx]))
    ELSE [cb |-> [cb EXCEPT !.count = @ - Len(out), !.bytes_sent = @ + Len(out)],
          out |-> out]

RECURSIVE ReadLoop(_, _, _)
ReadLoop(cb, to_read, out) ==
    IF Len(out) < to_read
    THEN ReadLoop([cb EXCEPT !.read_idx = (@ + 1) % cb.capacity], to_read,
                  Append(out, cb.data[cb.read_idx]))
    ELSE [cb |-> [cb EXCEPT !.count = @ - Len(out), !.bytes_sent = @ + Len(out)],
          out |-> out]

(* a read that does not count the bytes it hands out *)
client_buffer_read_Uncounted(cb, len) ==
    LET r == ReadLoop(cb, IF len < cb.count THEN len ELSE cb.count, <<>>)
    IN [r EXCEPT !.cb.bytes_sent = cb.bytes_sent]

(* a read that takes everything the ring holds, whatever the caller asked for *)
client_buffer_read_All(cb, len) == ReadLoop(cb, cb.count, <<>>)

client_buffer_read(cb, len) ==
    ReadLoop(cb, IF len < cb.count THEN len ELSE cb.count, <<>>)

(* ghost: the buffered bytes, oldest first *)
Contents(cb) == [k \in 1..cb.count |-> cb.data[(cb.read_idx + k - 1) % cb.capacity]]

(***************************************************************************)
(* Client list                                                             *)
(***************************************************************************)
client_list_init(sample_rate) ==
    [clients |-> <<>>,
     stream_header |-> <<MAGIC_FT32, sample_rate, 0, 0>>,
     total_clients_served |-> 0, total_bytes_relayed |-> 0, total_frames_relayed |-> 0]

(* count is Len(clients); index i of the source is position i + 1 here. *)
(* an add that does not look at the number of clients *)
client_list_add_NoCap(l, fd) ==
    [list |-> [l EXCEPT !.clients = Append(@, [fd |-> fd, buffer |-> client_buffer_create,
                                                    header_sent |-> FALSE, frames_sent |-> 0]),
                        !.total_clients_served = @ + 1],
     ret |-> Len(l.clients)]

client_list_add(l, fd) ==
    IF Len(l.clients) >= MaxClients
    THEN [list |-> l, ret |-> -1]
    ELSE [list |-> [l EXCEPT !.clients = Append(@, [fd |-> fd, buffer |-> client_buffer_create,
                                                    header_sent |-> FALSE, frames_sent |-> 0]),
                             !.total_clients_served = @ + 1],
          ret |-> Len(l.clients)]

RemoveAt(s, i) == [k \in 1..(Len(s) - 1) |-> IF k < i THEN s[k] ELSE s[k + 1]]

(* st = [list, fds, wire, errs, stalled]: the list, the descriptor table and the ghosts. *)
client_list_remove(st, idx) ==
    IF idx < 0 \/ idx >= Len(st.list.clients) THEN st
    ELSE [st EXCEPT !.fds = Close(@, st.list.clients[idx + 1].fd),
                    !.list.clients = RemoveAt(@, idx + 1)]

(* a broadcast that counts the bytes once per client *)
client_list_broadcast_PerClient(l, bytes) ==
    [l EXCEPT !.clients = [i \in 1..Len(l.clients) |->
                              [l.clients[i] EXCEPT !.buffer = client_buffer_write(@, bytes).cb]],
              !.total_bytes_relayed = @ + Len(bytes) * Len(l.clients)]

client_list_broadcast(l, bytes) ==
    [l EXCEPT !.clients = [i \in 1..Len(l.clients) |->
                              [l.clients[i] EXCEPT !.buffer = client_buffer_write(@, bytes).cb]],
              !.total_bytes_relayed = @ + Len(bytes)]

(* send() of len bytes on a non-blocking socket with `room`: EFAIL, EAGAIN or a count. *)
SendResult(room, len) == IF room < 0 THEN room ELSE Min(room, len)

(* ghosts of one send(): what the socket accepted, and how the call ended *)
Observe(st, fd, bytes, sent) ==
    [st EXCEPT !.wire[fd] = IF sent > 0 THEN @ \o SubSeq(bytes, 1, sent) ELSE @,
               !.stalled = IF sent = EAGAIN \/ (sent >= 0 /\ sent < Len(bytes)) THEN @ + 1 ELSE @,
               !.errs = IF sent = EFAIL THEN @ \cup {fd} ELSE @]

(* a drain that drops the client when its data send would block *)
SendBuffered_DropOnBlock(st, i, room) ==
    LET client == st.list.clients[i + 1]
        to_send == IF client.buffer.count < ChunkSize THEN client.buffer.count ELSE ChunkSize
        rd == client_buffer_read(client.buffer, to_send)
        sent == SendResult(room, Len(rd.out))
        s1 == Observe(st, client.fd, rd.out, sent)
    IN IF client.buffer.count > 0
       THEN IF sent < 0
            THEN client_list_remove(s1, i)
            ELSE [s1 EXCEPT !.list.clients[i + 1].buffer =
                     client_buffer_write(rd.cb, SubSeq(rd.out, sent + 1, Len(rd.out))).cb]
       ELSE st

(* "Send buffered data" of one client, lines 307-326 *)
SendBuffered(st, i, room) ==
    LET client == st.list.clients[i + 1]
        to_send == IF client.buffer.count < ChunkSize THEN client.buffer.count ELSE ChunkSize
        rd == client_buffer_read(client.buffer, to_send)
        chunk == rd.out
        read_count == Len(rd.out)
        sent == SendResult(room, read_count)
        s1 == Observe(st, client.fd, chunk, sent)
        put(bytes) == [s1 EXCEPT !.list.clients[i + 1].buffer = client_buffer_write(rd.cb, bytes).cb]
    IN IF client.buffer.count > 0
       THEN IF sent < 0
            THEN IF sent # EAGAIN
                 THEN client_list_remove(s1, i)
                 ELSE put(chunk)
            ELSE IF sent < read_count
                 THEN put(SubSeq(chunk, sent + 1, read_count))
                 ELSE [s1 EXCEPT !.list.clients[i + 1].buffer = rd.cb]
       ELSE st

(* one iteration of the loop of client_list_send_pending, lines 294-326 *)
SendPendingOne(st, i, out) ==
    LET client == st.list.clients[i + 1]
        hdr == st.list.stream_header
        sent == SendResult(out.h, Len(hdr))
        s1 == Observe(st, client.fd, hdr, sent)
    IN IF ~client.header_sent
       THEN IF sent = Len(hdr)
            THEN SendBuffered([s1 EXCEPT !.list.clients[i + 1].header_sent = TRUE], i, out.d)
            ELSE IF sent < 0 /\ sent # EAGAIN
                 THEN client_list_remove(s1, i)
                 ELSE SendBuffered(s1, i, out.d)
       ELSE SendBuffered(st, i, out.d)

RECURSIVE SendPendingLoop(_, _, _)
SendPendingLoop(st, i, outs) ==
    IF i >= 0 THEN SendPendingLoop(SendPendingOne(st, i, outs[i + 1]), i - 1, outs) ELSE st

client_list_send_pending(st, outs) == SendPendingLoop(st, Len(st.list.clients) - 1, outs)

(***************************************************************************)
(* JSON helpers.  A C string is a sequence of characters; a character is a *)
(* one-element name: DQ is '"', BS is '\', NL, CR, TAB are the control     *)
(* characters, BEL stands for the bytes outside 32..126.                   *)
(***************************************************************************)
DQ == "dq"
BS == "bs"
NL == "nl"
CR == "cr"
TAB == "tab"
BEL == "bel"

(* strstr: the position of the first occurrence of pat in s, 0 if there is none *)
StrStr(s, pat) ==
    LET hits == {i \in 1..(Len(s) - Len(pat) + 1) : SubSeq(s, i, i + Len(pat) - 1) = pat}
    IN IF hits = {} THEN 0 ELSE CHOOSE i \in hits : \A j \in hits : i <= j

(* strchr on the tail of s that starts at position from *)
StrChr(s, from, c) ==
    LET hits == {i \in from..Len(s) : s[i] = c}
    IN IF hits = {} THEN 0 ELSE CHOOSE i \in hits : \A j \in hits : i <= j

(* json_get_string: ret is the length copied, or -1; out is the value copied *)
json_get_string(json, key, out_size) ==
    LET pattern == <<DQ>> \o key \o <<DQ, ":", DQ>>
        found == StrStr(json, pattern)
        start == found + Len(pattern)
        end == StrChr(json, start, DQ)
        len == IF end - start >= out_size THEN out_size - 1 ELSE end - start
    IN IF found = 0 \/ end = 0 THEN [ret |-> -1, out |-> <<>>]
       ELSE [ret |-> len, out |-> SubSeq(json, start, start + len - 1)]

RECURSIVE UnescapeLoop(_, _, _)
UnescapeLoop(str, r, out) ==
    IF r > Len(str) THEN out
    ELSE IF str[r] = BS /\ r + 1 <= Len(str)
         THEN LET c == str[r + 1]
                  u == CASE c = "n" -> NL
                         [] c = "r" -> CR
                         [] c = "t" -> TAB
                         [] OTHER -> c
              IN UnescapeLoop(str, r + 2, Append(out, u))
         ELSE UnescapeLoop(str, r + 1, Append(out, str[r]))

(* json_unescape: the unescaped string (its length is the function's result) *)
json_unescape(str) == UnescapeLoop(str, 1, <<>>)

(* the escaping loop of splitter_send_sdr for one character *)
EscapeChar(c) ==
    CASE c = DQ -> <<BS, DQ>>
      [] c = BS -> <<BS, BS>>
      [] c = NL -> <<BS, "n">>
      [] c = CR -> <<BS, "r">>
      [] c \in {TAB, BEL} -> <<>>
      [] OTHER -> <<c>>

SDR_BUF_SIZE == 8192
SdrPrefix == <<"{", DQ, "t", DQ, ":", DQ, "s", DQ, ",", DQ, "d", DQ, ":", DQ>>
SdrSuffix == <<DQ, "}", NL>>

RECURSIVE EscapeLoop(_, _, _)
EscapeLoop(data, i, buf) ==
    IF i <= Len(data) /\ Len(buf) < SDR_BUF_SIZE - 10
    THEN EscapeLoop(data, i + 1, buf \o EscapeChar(data[i]))
    ELSE buf

(* the frame splitter_send_sdr hands to send() *)
SdrFrame(data) == EscapeLoop(data, 1, SdrPrefix) \o SdrSuffix

(***************************************************************************)
(* Broadcast stream: one client list and its source socket                 *)
(***************************************************************************)
Slots == 0..(MaxSplitters - 1)

(* a splitter_conn_t of the zero-initialised static array g_splitters; recv_len is
   Len(recv_buf); node_id and ip are written but never read by the relay *)
ZeroSlot ==
    [active |-> FALSE, ctrl_fd |-> 0, listen_fd |-> 0, assigned_port |-> 0, client_fd |-> 0,
     det_listen_fd |-> 0, det_source_fd |-> 0, det_port |-> 0,
     disp_listen_fd |-> 0, disp_source_fd |-> 0, disp_port |-> 0,
     recv_buf |-> <<>>, has_sdr |-> FALSE, last_seen |-> 0]

InitWith(maxfd) ==
    /\ fds = InitFds(maxfd)
    /\ \E rate \in {DETECTOR_RATE, DISPLAY_RATE} : list = client_list_init(rate)
    /\ source_fd = NOFD
    /\ produced = 0
    /\ wire = [f \in 0..maxfd |-> <<>>]
    /\ joined = [f \in 0..maxfd |-> 0]
    /\ stalls = 0
    /\ send_errors = 0
    /\ short_writes = 0
    /\ residual = {}
    /\ g_splitters = [s \in Slots |-> ZeroSlot]
    /\ g_splitter_count = 0
    /\ g_next_splitter_port = SPLITTER_PORT_BASE
    /\ in_flight = [s \in Slots |-> <<>>]
    /\ c2p_in = [s \in Slots |-> <<>>]
    /\ c2p_out = [s \in Slots |-> <<>>]
    /\ p2c_in = [s \in Slots |-> <<>>]
    /\ p2c_out = [s \in Slots |-> <<>>]
    /\ rejected = [s \in Slots |-> FALSE]
    /\ peer_lost = [s \in Slots |-> {}]
    /\ accepted = 0
    /\ exch = NoExch
    /\ g_edge_nodes = <<>>
    /\ g_services = <<>>
    /\ now = 0
    /\ g_last_status_time = 0

Init == InitWith(MaxFd)

(* A consumer connects: accept, then client_list_add; a full list closes the socket. *)
ConsumerArrives ==
    /\ FreeFds # {}
    /\ LET fd == LowestFree
           r == client_list_add(list, fd)
       IN /\ list' = r.list
          /\ fds' = IF r.ret < 0 THEN fds ELSE [fds EXCEPT ![fd] = Desc("consumer", 0, "none")]
          /\ wire' = [wire EXCEPT ![fd] = <<>>]
          /\ joined' = [joined EXCEPT ![fd] = produced]
    /\ UNCHANGED <<source_fd, produced, stalls, send_errors, short_writes, residual, svars>>

(* the same while the stream has served fewer than MaxServed consumers *)
ConsumerAccept == list.total_clients_served < MaxServed /\ ConsumerArrives

(* handle_source_connection on the stream's listen socket *)
handle_source_connection ==
    /\ FreeFds # {}
    /\ LET fd == LowestFree
       IN /\ fds' = [Close(fds, source_fd) EXCEPT ![fd] = Desc("source", 0, "none")]
          /\ source_fd' = fd
    /\ UNCHANGED <<list, produced, wire, joined, stalls, send_errors, short_writes, residual, svars>>

(* receive_and_relay with recv() > 0: the next n producer bytes *)
ReceiveData ==
    /\ source_fd >= 0
    /\ \E n \in 1..RecvSize :
          /\ produced + n <= MaxProduced
          /\ LET buffer == [k \in 1..n |-> produced + k]
             IN /\ list' = client_list_broadcast(list, buffer)
                /\ short_writes' = short_writes + Cardinality(
                       {i \in 1..Len(list.clients) :
                           client_buffer_write(list.clients[i].buffer, buffer).ret < n})
          /\ produced' = produced + n
    /\ UNCHANGED <<fds, source_fd, wire, joined, stalls, send_errors, residual, svars>>

(* a receive_and_relay that takes EAGAIN for the loss of the source *)
ReceiveAgain_ClosesSource(again) ==
    /\ source_fd >= 0
    /\ exch' = again
    /\ fds' = Close(fds, source_fd)
    /\ source_fd' = NOFD
    /\ UNCHANGED <<list, produced, wire, joined, stalls, send_errors, short_writes, residual,
                   svars, accepted, rvars>>

(* receive_and_relay with recv() < 0 and EAGAIN: returns true, nothing changes; `again`
   is the ghost the step leaves (exch itself where the step is not noted) *)
ReceiveAgain(again) ==
    /\ source_fd >= 0
    /\ exch' = again
    /\ UNCHANGED <<fds, bvars, svars, accepted, rvars>>

(* a relay that drops the consumers when it loses the source *)
SourceLost_DropsConsumers ==
    /\ source_fd >= 0
    /\ fds' = [f \in DOMAIN fds |->
                  IF f = source_fd \/ f \in {list.clients[i].fd : i \in 1..Len(list.clients)}
                  THEN FreeDesc ELSE fds[f]]
    /\ source_fd' = NOFD
    /\ list' = [list EXCEPT !.clients = <<>>]
    /\ UNCHANGED <<produced, wire, joined, stalls, send_errors, short_writes, svars>>

(* receive_and_relay returns false (EOF or hard error): run() closes the source *)
SourceLost ==
    /\ source_fd >= 0
    /\ fds' = Close(fds, source_fd)
    /\ source_fd' = NOFD
    /\ UNCHANGED <<list, produced, wire, joined, stalls, send_errors, short_writes, svars>>

ReceiveLost == SourceLost /\ UNCHANGED residual

(* The results the sockets can give in one drain pass: per client, the room for the
   header send (if one is made) and for the data send (if one is made). *)
HdrRooms(c) == IF c.header_sent THEN {0} ELSE {EFAIL, EAGAIN, 2, 4}
DataRooms(c) == IF c.buffer.count = 0 THEN {0}
                ELSE {EFAIL, EAGAIN} \cup (1..Min(c.buffer.count, ChunkSize))
RECURSIVE OutSeqs(_, _)
OutSeqs(cl, k) ==
    IF k = 0 THEN {<<>>}
    ELSE {Append(s, [h |-> h, d |-> d]) :
              s \in OutSeqs(cl, k - 1), h \in HdrRooms(cl[k]), d \in DataRooms(cl[k])}

DrainWith(outs) ==
    LET st == client_list_send_pending(
                  [list |-> list, fds |-> fds, wire |-> wire, errs |-> {}, stalled |-> 0], outs)
    IN /\ stalls + st.stalled <= MaxStalls
       /\ list' = st.list
       /\ fds' = st.fds
       /\ wire' = [f \in DOMAIN wire |-> IF f \in st.errs THEN <<>> ELSE st.wire[f]]
       /\ joined' = [f \in DOMAIN joined |-> IF f \in st.errs THEN 0 ELSE joined[f]]
       /\ stalls' = stalls + st.stalled
       /\ send_errors' = send_errors + Cardinality(st.errs)
       /\ UNCHANGED <<source_fd, produced, short_writes, residual, svars>>

(* client_list_send_pending, called every loop iteration *)
Drain == \E outs \in OutSeqs(list.clients, Len(list.clients)) : DrainWith(outs)

Next ==
    \/ ConsumerAccept /\ UNCHANGED <<accepted, exch, rvars>>
    \/ handle_source_connection /\ UNCHANGED <<accepted, exch, rvars>>
    \/ ReceiveData /\ UNCHANGED <<accepted, exch, rvars>>
    \/ ReceiveAgain(exch)
    \/ ReceiveLost /\ UNCHANGED <<accepted, exch, rvars>>
    \/ Drain /\ UNCHANGED <<accepted, exch, rvars>>

Spec == Init /\ [][Next]_vars

(***************************************************************************)
(* The same stream with one consumer socket (the one on GoodFd, if a       *)
(* consumer gets that descriptor) that accepts every send in full.  The    *)
(* event loop calls client_list_send_pending in every iteration, and its   *)
(* select() times out after 100 ms, so drain passes keep happening.        *)
(***************************************************************************)
GoodFd == LowestIn(InitFds(MaxFd))

GoodOuts(cl, outs) ==
    \A i \in 1..Len(cl) :
        cl[i].fd = GoodFd =>
            /\ outs[i].h \in {0, Len(list.stream_header)}
            /\ outs[i].d \in {0, Min(cl[i].buffer.count, ChunkSize)}

DrainLive ==
    \E outs \in OutSeqs(list.clients, Len(list.clients)) :
        GoodOuts(list.clients, outs) /\ DrainWith(outs)

BufferedOn(fd) ==
    UNION {Range(Contents(list.clients[i].buffer)) :
              i \in {j \in 1..Len(list.clients) : list.clients[j].fd = fd}}

ReceiveLostLive == SourceLost /\ residual' = BufferedOn(GoodFd)

NextLive ==
    \/ ConsumerAccept /\ UNCHANGED <<accepted, exch, rvars>>
    \/ handle_source_connection /\ UNCHANGED <<accepted, exch, rvars>>
    \/ ReceiveData /\ UNCHANGED <<accepted, exch, rvars>>
    \/ ReceiveAgain(exch)
    \/ ReceiveLostLive /\ UNCHANGED <<accepted, exch, rvars>>
    \/ DrainLive /\ UNCHANGED <<accepted, exch, rvars>>

(* Weak fairness of DrainLive, WF_vars(DrainLive), written out:
   DrainPending is ENABLED <<DrainLive>>_vars (a pass changes the state exactly when
   some header is unsent or some ring is not empty). *)
DrainPending ==
    \E i \in 1..Len(list.clients) :
        ~list.clients[i].header_sent \/ list.clients[i].buffer.count > 0

DrainFairness == []<>(~DrainPending) \/ []<><<DrainLive>>_vars

SpecLive == Init /\ [][NextLive]_vars /\ DrainFairness

(***************************************************************************)
(* Splitter slots: rendezvous, the per-slot control channel, and the       *)
(* per-slot detector and display sources.  The rendezvous listener is      *)
(* taken to be listening on RENDEZVOUS_PORT.  stdin (descriptor 0) never   *)
(* becomes readable.                                                       *)
(***************************************************************************)
Word_t == <<"t">>
Word_c == <<"c">>
Word_d == <<"d">>
Word_id == <<"i", "d">>
Word_has_sdr == <<"h", "a", "s", "_", "s", "d", "r">>
Word_hello == <<"h", "e", "l", "l", "o">>
Word_pong == <<"p", "o", "n", "g">>
Word_ready == <<"r", "e", "a", "d", "y">>
Word_true == <<"t", "r", "u", "e">>

(* the messages the peers send: "key":"value" members of one JSON object *)
Member(key, value) == <<DQ>> \o key \o <<DQ, ":", DQ>> \o value \o <<DQ>>
Object2(m1, m2) == <<"{">> \o m1 \o <<",">> \o m2 \o <<"}">>
Object3(m1, m2, m3) == <<"{">> \o m1 \o <<",">> \o m2 \o <<",">> \o m3 \o <<"}">>
HelloMsg == Object3(Member(Word_t, <<"r">>), Member(Word_c, Word_hello), Member(Word_id, <<"S">>))
PongMsg == Object2(Member(Word_t, <<"r">>), Member(Word_c, Word_pong))
ReadyMsg == Object3(Member(Word_t, <<"r">>), Member(Word_c, Word_ready),
                    Member(Word_has_sdr, Word_true))
(* an s frame as a producer builds it: the payload escaped by the table of section 4.5 *)
SdrMsg(payload) == Object2(Member(Word_t, <<"s">>), Member(Word_d, EscapeLoop(payload, 1, <<>>)))

allocate_splitter_port(next) ==
    [port |-> next,
     next |-> IF next + 1 > SPLITTER_PORT_MAX THEN SPLITTER_PORT_BASE ELSE next + 1]

find_free_splitter_slot(sl) ==
    LET free == {i \in DOMAIN sl : ~sl[i].active}
    IN IF free = {} THEN -1 ELSE CHOOSE i \in free : \A j \in free : i <= j

(* close(f) for a handle that holds a descriptor *)
CloseIf(t, f) == IF f >= 0 THEN Close(t, f) ELSE t

(* st = [sl, fds, next, count, p2c_in, p2c_out, lines, sent, err]: g_splitters, the
   descriptor table, g_next_splitter_port, g_splitter_count, the ghosts of the forwarded
   bytes, and the ghosts of the lines processed and of the replies sent by the step *)
close_splitter(st, s) ==
    LET sp == st.sl[s]
        t == CloseIf(CloseIf(CloseIf(CloseIf(CloseIf(CloseIf(CloseIf(st.fds,
                 sp.ctrl_fd), sp.client_fd), sp.listen_fd), sp.det_listen_fd),
                 sp.det_source_fd), sp.disp_listen_fd), sp.disp_source_fd)
    IN IF ~sp.active THEN st
       ELSE [st EXCEPT !.fds = t,
                       !.sl[s] = [ZeroSlot EXCEPT !.ctrl_fd = -1, !.client_fd = -1,
                                      !.listen_fd = -1, !.det_listen_fd = -1,
                                      !.det_source_fd = -1, !.disp_listen_fd = -1,
                                      !.disp_source_fd = -1],
                       !.count = @ - 1]

(* a bind that succeeds on a port that already has a listener *)
create_listen_socket_Rebind(t, port) ==
    LET fd == LowestIn(t)
    IN IF fd < 0
       THEN [fds |-> t, fd |-> -1]
       ELSE [fds |-> [t EXCEPT ![fd] = Desc("listen", port, "none")], fd |-> fd]

(* socket + bind + listen: no descriptor left, or the port already has a listener *)
create_listen_socket(t, port) ==
    LET fd == LowestIn(t)
    IN IF fd < 0 \/ \E f \in DOMAIN t : t[f].kind = "listen" /\ t[f].port = port
       THEN [fds |-> t, fd |-> -1]
       ELSE [fds |-> [t EXCEPT ![fd] = Desc("listen", port, "none")], fd |-> fd]

(* the descriptors run() puts into readfds *)
Polled ==
    (IF source_fd >= 0 THEN {source_fd} ELSE {})
    \cup UNION {{f \in {g_splitters[s].listen_fd, g_splitters[s].ctrl_fd,
                        g_splitters[s].client_fd, g_splitters[s].det_listen_fd,
                        g_splitters[s].det_source_fd, g_splitters[s].disp_listen_fd,
                        g_splitters[s].disp_source_fd} : f >= 0} :
                s \in {i \in Slots : g_splitters[i].active}}

(* select() fails with EBADF on a closed descriptor and run() leaves its loop *)
SelectOk == \A f \in Polled : f \in DOMAIN fds /\ fds[f].kind # "free"

(* a connection is pending on f / f is a connected socket *)
Listening(f) == f \in DOMAIN fds /\ fds[f].kind = "listen"
Connected(f) == f \in DOMAIN fds /\ fds[f].kind \in {"peer", "source", "consumer"}

SlotState == [sl |-> g_splitters, fds |-> fds, next |-> g_next_splitter_port,
              count |-> g_splitter_count, p2c_in |-> p2c_in, p2c_out |-> p2c_out,
              lines |-> <<>>, sent |-> <<>>, err |-> FALSE]

(* the ghosts of a slot that was destroyed start again *)
Forget(g, st) == [s \in Slots |-> IF st.sl[s].active THEN g[s] ELSE <<>>]

(* snprintf "%d" of a non-negative number *)
DigitChars == <<"0", "1", "2", "3", "4", "5", "6", "7", "8", "9">>
RECURSIVE Decimal(_)
Decimal(n) ==
    IF n < 10 THEN <<DigitChars[n + 1]>>
    ELSE Decimal(n \div 10) \o <<DigitChars[(n % 10) + 1]>>

(* a "key":number member of a reply *)
NumMember(key, n) == <<DQ>> \o key \o <<DQ, ":">> \o Decimal(n)

Word_assign == <<"a", "s", "s", "i", "g", "n">>
Word_p == <<"p">>
(* the response of handle_rendezvous_accept: {"t":"r","c":"assign","p":<port>}\n *)
AssignReply(port) ==
    Object3(Member(Word_t, <<"r">>), Member(Word_c, Word_assign), NumMember(Word_p, port))
    \o <<NL>>

(* the first messages a rendezvous connection can bring: nothing, a hello, something else *)
RendezvousInputs == {<<>>, HelloMsg \o <<NL>>, PongMsg \o <<NL>>}

(* main(): the listen socket of the rendezvous port, bound at startup *)
RendezvousListen == [port |-> RENDEZVOUS_PORT, listening |-> TRUE]

(* a rendezvous handler that leaves the new listen socket bound when the reply fails *)
handle_rendezvous_accept_KeepsListen ==
    /\ SelectOk
    /\ RendezvousListen.listening
    /\ FreeFds # {}
    /\ accepted' = accepted + 1
    /\ \E buf \in RendezvousInputs, send_ok \in BOOLEAN :
          LET fd == LowestFree
              t1 == [fds EXCEPT ![fd] = Desc("peer", RendezvousListen.port, "none")]
              cmd == json_get_string(buf, Word_c, 32)
              s == find_free_splitter_slot(g_splitters)
              a == allocate_splitter_port(g_next_splitter_port)
              l == create_listen_socket(t1, a.port)
              ex == [kind |-> "rendezvous", slot |-> -1, msg |-> buf, sent |-> <<>>,
                     err |-> FALSE]
          IN IF Len(buf) = 0 \/ cmd.ret < 0 \/ cmd.out # Word_hello \/ s < 0
             THEN /\ exch' = ex
                  /\ UNCHANGED <<fds, bvars, g_splitters, g_splitter_count,
                                 g_next_splitter_port, in_flight, fwd, rejected, peer_lost>>
             ELSE IF l.fd < 0 \/ ~send_ok
                  THEN /\ g_next_splitter_port' = a.next
                       /\ exch' = [ex EXCEPT !.err = (l.fd >= 0)]
                       /\ fds' = Close(l.fds, fd)
                       /\ UNCHANGED <<bvars, g_splitters, g_splitter_count, in_flight,
                                      fwd, rejected, peer_lost>>
                  ELSE /\ fds' = Close(l.fds, fd)
                       /\ g_splitters' = [g_splitters EXCEPT ![s] =
                              [ZeroSlot EXCEPT !.active = TRUE, !.assigned_port = a.port,
                                               !.listen_fd = l.fd, !.ctrl_fd = -1,
                                               !.client_fd = -1, !.last_seen = now]]
                       /\ g_splitter_count' = g_splitter_count + 1
                       /\ g_next_splitter_port' = a.next
                       /\ peer_lost' = [peer_lost EXCEPT ![s] = {}]
                       /\ exch' = [ex EXCEPT !.slot = s, !.sent = <<AssignReply(a.port)>>]
                       /\ UNCHANGED <<bvars, in_flight, fwd, rejected>>

handle_rendezvous_accept ==
    /\ SelectOk
    /\ RendezvousListen.listening
    /\ FreeFds # {}
    /\ accepted' = accepted + 1
    /\ \E buf \in RendezvousInputs, send_ok \in BOOLEAN :
          LET fd == LowestFree
              t1 == [fds EXCEPT ![fd] = Desc("peer", RendezvousListen.port, "none")]
              cmd == json_get_string(buf, Word_c, 32)
              s == find_free_splitter_slot(g_splitters)
              a == allocate_splitter_port(g_next_splitter_port)
              l == create_listen_socket(t1, a.port)
              ex == [kind |-> "rendezvous", slot |-> -1, msg |-> buf, sent |-> <<>>,
                     err |-> FALSE]
          IN IF Len(buf) = 0 \/ cmd.ret < 0 \/ cmd.out # Word_hello \/ s < 0
             THEN /\ exch' = ex
                  /\ UNCHANGED <<fds, bvars, g_splitters, g_splitter_count,
                                 g_next_splitter_port, in_flight, fwd, rejected, peer_lost>>
             ELSE IF l.fd < 0 \/ ~send_ok
                  THEN /\ g_next_splitter_port' = a.next
                       /\ exch' = [ex EXCEPT !.err = (l.fd >= 0)]
                       /\ UNCHANGED <<fds, bvars, g_splitters, g_splitter_count, in_flight,
                                      fwd, rejected, peer_lost>>
                  ELSE /\ fds' = Close(l.fds, fd)
                       /\ g_splitters' = [g_splitters EXCEPT ![s] =
                              [ZeroSlot EXCEPT !.active = TRUE, !.assigned_port = a.port,
                                               !.listen_fd = l.fd, !.ctrl_fd = -1,
                                               !.client_fd = -1, !.last_seen = now]]
                       /\ g_splitter_count' = g_splitter_count + 1
                       /\ g_next_splitter_port' = a.next
                       /\ peer_lost' = [peer_lost EXCEPT ![s] = {}]
                       /\ exch' = [ex EXCEPT !.slot = s, !.sent = <<AssignReply(a.port)>>]
                       /\ UNCHANGED <<bvars, in_flight, fwd, rejected>>

(* an accept that puts a third connection in the client's place *)
handle_splitter_accept_Replace(s) ==
    /\ SelectOk
    /\ g_splitters[s].active
    /\ Listening(g_splitters[s].listen_fd)
    /\ FreeFds # {}
    /\ accepted' = accepted + 1
    /\ LET sp == g_splitters[s]
           fd == LowestFree
       IN /\ fds' = [fds EXCEPT ![fd] = Desc("peer", fds[sp.listen_fd].port, "ctl")]
          /\ g_splitters' = IF sp.ctrl_fd < 0 THEN [g_splitters EXCEPT ![s].ctrl_fd = fd]
                            ELSE [g_splitters EXCEPT ![s].client_fd = fd]
    /\ UNCHANGED <<bvars, g_splitter_count, g_next_splitter_port, in_flight, fwd, rejected,
                   peer_lost>>

handle_splitter_accept(s) ==
    /\ SelectOk
    /\ g_splitters[s].active
    /\ Listening(g_splitters[s].listen_fd)
    /\ FreeFds # {}
    /\ accepted' = accepted + 1
    /\ LET sp == g_splitters[s]
           fd == LowestFree
           t1 == [fds EXCEPT ![fd] = Desc("peer", fds[sp.listen_fd].port, "ctl")]
       IN IF sp.ctrl_fd < 0
          THEN /\ fds' = t1
               /\ g_splitters' = [g_splitters EXCEPT ![s].ctrl_fd = fd]
               /\ UNCHANGED <<rejected, peer_lost>>
          ELSE IF sp.client_fd < 0
               THEN /\ fds' = t1
                    /\ g_splitters' = [g_splitters EXCEPT ![s].client_fd = fd]
                    /\ peer_lost' = [peer_lost EXCEPT ![s] = @ \ {"client"}]
                    /\ UNCHANGED rejected
               ELSE /\ rejected' = [rejected EXCEPT ![s] = TRUE]
                    /\ UNCHANGED peer_lost
                    /\ UNCHANGED <<fds, g_splitters>>
    /\ UNCHANGED <<bvars, g_splitter_count, g_next_splitter_port, in_flight, fwd>>

(* ghost: the payload an s frame carries, read as JSON (an escaped character does
   not end the string) *)
RECURSIVE PayloadFrom(_, _, _)
PayloadFrom(msg, i, out) ==
    IF i > Len(msg) \/ msg[i] = DQ THEN out
    ELSE IF msg[i] = BS /\ i + 1 <= Len(msg)
         THEN PayloadFrom(msg, i + 2, out \o json_unescape(SubSeq(msg, i, i + 1)))
         ELSE PayloadFrom(msg, i + 1, Append(out, msg[i]))

FramePayload(msg) ==
    LET pattern == <<DQ>> \o Word_d \o <<DQ, ":", DQ>>
        found == StrStr(msg, pattern)
    IN IF found = 0 THEN <<>> ELSE PayloadFrom(msg, found + Len(pattern), <<>>)

(* the results a send() on a connected non-blocking socket can give *)
SendRooms == {EFAIL, EAGAIN, 1, SDR_BUF_SIZE}

Word_ports == <<"p", "o", "r", "t", "s">>
Word_det == <<"d", "e", "t">>
Word_disp == <<"d", "i", "s", "p">>
(* the response to ready: {"t":"r","c":"ports","det":<det>,"disp":<disp>}\n *)
PortsReply(det, disp) ==
    <<"{">> \o Member(Word_t, <<"r">>) \o <<",">> \o Member(Word_c, Word_ports) \o <<",">>
    \o NumMember(Word_det, det) \o <<",">> \o NumMember(Word_disp, disp) \o <<"}", NL>>

(* process_splitter_message; room is the result of the send to the client, if one is made *)
process_splitter_message(st, s, msg, room) ==
    LET sp == st.sl[s]
        type == json_get_string(msg, Word_t, 8)
        cmd == json_get_string(msg, Word_c, 32)
        has_sdr_str == json_get_string(msg, Word_has_sdr, 16)
        det == allocate_splitter_port(st.next)
        disp == allocate_splitter_port(det.next)
        dl == create_listen_socket(st.fds, det.port)
        pl == create_listen_socket(dl.fds, disp.port)
        ready == [st EXCEPT !.sl[s].has_sdr = (has_sdr_str.ret >= 0 /\ has_sdr_str.out = Word_true),
                            !.sl[s].det_port = det.port,
                            !.sl[s].disp_port = disp.port,
                            !.sl[s].det_listen_fd = dl.fd,
                            !.sl[s].disp_listen_fd = pl.fd,
                            !.fds = pl.fds,
                            !.next = disp.next]
        response == PortsReply(det.port, disp.port)
        answered == SendResult(room, Len(response))
        replied == [ready EXCEPT !.sent = IF answered > 0
                                          THEN Append(@, SubSeq(response, 1, answered)) ELSE @,
                                 !.err = @ \/ answered < Len(response)]
        d == json_get_string(msg, Word_d, 4096)
        data == json_unescape(d.out)
        sent == SendResult(room, Len(data))
    IN IF type.ret < 0 THEN st
       ELSE IF type.ret > 0 /\ type.out[1] = "r"
            THEN IF cmd.ret >= 0 /\ cmd.out = Word_ready
                 THEN IF dl.fd < 0 \/ pl.fd < 0 THEN close_splitter(ready, s) ELSE replied
                 ELSE st
            ELSE IF type.ret > 0 /\ type.out[1] = "s"
                 THEN IF sp.client_fd < 0 THEN st
                      ELSE LET s1 == [st EXCEPT !.p2c_in[s] = @ \o FramePayload(msg)]
                           IN IF d.ret > 0
                              THEN [s1 EXCEPT !.p2c_out[s] =
                                       IF sent > 0 THEN @ \o SubSeq(data, 1, sent) ELSE @]
                              ELSE s1
                 ELSE st

(* a loop that keeps nothing of a line whose newline has not arrived yet *)
RECURSIVE ProcessLines_DropsTail(_, _, _, _)
ProcessLines_DropsTail(st, s, buf, room) ==
    LET newline == StrChr(buf, 1, NL)
        rest == SubSeq(buf, newline + 1, Len(buf))
        s1 == IF newline > 1
              THEN process_splitter_message([st EXCEPT !.lines = Append(@, SubSeq(buf, 1, newline - 1))],
                                            s, SubSeq(buf, 1, newline - 1), room)
              ELSE st
    IN IF ~st.sl[s].active THEN st
       ELSE IF newline = 0 THEN [st EXCEPT !.sl[s].recv_buf = <<>>]
       ELSE ProcessLines_DropsTail(s1, s, rest, room)

(* "Process complete messages": the loop of handle_splitter_data over the lines of buf;
   after close_splitter the buffer is zeroed and no further line is found *)
RECURSIVE ProcessLines(_, _, _, _)
ProcessLines(st, s, buf, room) ==
    LET newline == StrChr(buf, 1, NL)
        rest == SubSeq(buf, newline + 1, Len(buf))
        s1 == IF newline > 1
              THEN process_splitter_message([st EXCEPT !.lines = Append(@, SubSeq(buf, 1, newline - 1))],
                                            s, SubSeq(buf, 1, newline - 1), room)
              ELSE st
    IN IF ~st.sl[s].active THEN st
       ELSE IF newline = 0 THEN [st EXCEPT !.sl[s].recv_buf = buf]
       ELSE ProcessLines(s1, s, rest, room)

(* the lines a producer sends on its control connection *)
ProducerPayloads == {<<"a">>}
(* ghost: the number of bytes the peers of the control channels handed over for forwarding *)
RECURSIVE Forwarded(_)
Forwarded(S) ==
    IF S = {} THEN 0
    ELSE LET s == CHOOSE x \in S : TRUE
         IN Len(c2p_in[s]) + Len(p2c_in[s]) + Forwarded(S \ {s})
CtrlLines(s) ==
    {PongMsg \o <<NL>>, ReadyMsg \o <<NL>>}
    \cup {SdrMsg(p) \o <<NL>> : p \in {q \in ProducerPayloads : Forwarded(Slots) + Len(q) <= MaxFwd}}

(* recv() returns what has arrived: the whole of d, or its first n characters for an n
   of `at` *)
SplitPoints(at, d, space) ==
    {n \in {Len(d)} \cup at : n >= 1 /\ n <= Len(d) /\ n <= space}

(* the new values of the slots' variables after a handler that worked on st *)
SetSlots(st) ==
    /\ g_splitters' = st.sl
    /\ fds' = st.fds
    /\ g_next_splitter_port' = st.next
    /\ g_splitter_count' = st.count
    /\ c2p_in' = Forget(c2p_in, st)
    /\ c2p_out' = Forget(c2p_out, st)
    /\ p2c_in' = Forget(st.p2c_in, st)
    /\ p2c_out' = Forget(st.p2c_out, st)
    /\ rejected' = [s \in Slots |-> rejected[s] /\ st.sl[s].active]
    /\ UNCHANGED accepted

(* handle_splitter_data for slot s: what recv() returns is the bytes in flight, or one of
   `lines` when nothing is in flight, whole or cut at a length of `at`; `again` is the
   ghost that a recv() with nothing to take leaves *)
SplitterData(s, again, lines, at) ==
    /\ SelectOk
    /\ g_splitters[s].active
    /\ g_splitters[s].ctrl_fd >= 0
    /\ Connected(g_splitters[s].ctrl_fd)
    /\ LET sp == g_splitters[s]
           space == RECV_BUF_SIZE - Len(sp.recv_buf) - 1
       IN IF space <= 0
          THEN /\ g_splitters' = [g_splitters EXCEPT ![s].recv_buf = <<>>]
               /\ exch' = NoExch
               /\ UNCHANGED <<fds, bvars, g_splitter_count, g_next_splitter_port, in_flight,
                              fwd, rejected, peer_lost, accepted>>
          ELSE \/ (* EAGAIN *)
                  /\ exch' = again
                  /\ UNCHANGED <<fds, bvars, svars, accepted>>
               \/ (* EOF or error *)
                  /\ SetSlots(close_splitter(SlotState, s))
                  /\ in_flight' = [in_flight EXCEPT ![s] = <<>>]
                  /\ peer_lost' = [peer_lost EXCEPT ![s] = @ \cup {"producer"}]
                  /\ exch' = NoExch
                  /\ UNCHANGED bvars
               \/ (* received > 0 *)
                  \E d \in (IF in_flight[s] # <<>> THEN {in_flight[s]} ELSE lines),
                     room \in SendRooms :
                     \E n \in SplitPoints(at, d, space) :
                        \E st \in {ProcessLines([SlotState EXCEPT !.sl[s].last_seen = now], s,
                                                sp.recv_buf \o SubSeq(d, 1, n), room)} :
                           /\ SetSlots(st)
                           /\ in_flight' = [in_flight EXCEPT ![s] =
                                  IF st.sl[s].active THEN SubSeq(d, n + 1, Len(d)) ELSE <<>>]
                           /\ peer_lost' = [peer_lost EXCEPT ![s] =
                                  IF st.sl[s].active THEN @ ELSE {}]
                           /\ exch' = IF st.lines = <<>> THEN NoExch
                                      ELSE [kind |-> "ctrl", slot |-> s, msg |-> st.lines,
                                            sent |-> st.sent, err |-> st.err]
                           /\ UNCHANGED bvars

(* the producer sends one line of CtrlLines at a time, which arrives whole or with its
   first SplitAt characters ahead of the rest *)
handle_splitter_data(s, again) ==
    SplitterData(s, again, CtrlLines(s), IF in_flight[s] = <<>> THEN {SplitAt} ELSE {})

(* the data a client sends in one piece *)
ClientChunks == {<<"a">>}

(* a client handler that destroys the slot when the client goes away *)
handle_client_to_splitter_ClosesSlot(s, again) ==
    /\ SelectOk
    /\ g_splitters[s].active
    /\ g_splitters[s].client_fd >= 0
    /\ Connected(g_splitters[s].client_fd)
    /\ LET sp == g_splitters[s]
       IN \/ (* EAGAIN *)
             /\ exch' = again
             /\ UNCHANGED <<fds, bvars, svars, accepted>>
          \/ (* EOF or error *)
             /\ SetSlots(close_splitter(SlotState, s))
             /\ in_flight' = [in_flight EXCEPT ![s] = <<>>]
             /\ peer_lost' = [peer_lost EXCEPT ![s] = @ \cup {"client"}]
             /\ exch' = NoExch
             /\ UNCHANGED bvars
          \/ (* received > 0: splitter_send_sdr *)
             \E buffer \in ClientChunks, room \in SendRooms :
                LET frame == SdrFrame(buffer)
                    sent == IF Connected(sp.ctrl_fd) THEN SendResult(room, Len(frame)) ELSE EFAIL
                IN /\ Forwarded(Slots) + Len(buffer) <= MaxFwd
                   /\ exch' = NoExch
                   /\ c2p_in' = [c2p_in EXCEPT ![s] = @ \o buffer]
                   /\ c2p_out' = [c2p_out EXCEPT ![s] =
                          IF sent > 0 THEN @ \o SubSeq(frame, 1, sent) ELSE @]
                   /\ UNCHANGED <<fds, bvars, g_splitters, g_splitter_count,
                                  g_next_splitter_port, in_flight, p2c_in, p2c_out, rejected, peer_lost,
                                  accepted>>

handle_client_to_splitter(s, again) ==
    /\ SelectOk
    /\ g_splitters[s].active
    /\ g_splitters[s].client_fd >= 0
    /\ Connected(g_splitters[s].client_fd)
    /\ LET sp == g_splitters[s]
       IN \/ (* EAGAIN *)
             /\ exch' = again
             /\ UNCHANGED <<fds, bvars, svars, accepted>>
          \/ (* EOF or error *)
             /\ exch' = NoExch
             /\ fds' = Close(fds, sp.client_fd)
             /\ g_splitters' = [g_splitters EXCEPT ![s].client_fd = -1]
             /\ peer_lost' = [peer_lost EXCEPT ![s] = @ \cup {"client"}]
             /\ UNCHANGED <<bvars, g_splitter_count, g_next_splitter_port, in_flight,
                            fwd, rejected, accepted>>
          \/ (* received > 0: splitter_send_sdr *)
             \E buffer \in ClientChunks, room \in SendRooms :
                LET frame == SdrFrame(buffer)
                    sent == IF Connected(sp.ctrl_fd) THEN SendResult(room, Len(frame)) ELSE EFAIL
                IN /\ Forwarded(Slots) + Len(buffer) <= MaxFwd
                   /\ exch' = NoExch
                   /\ c2p_in' = [c2p_in EXCEPT ![s] = @ \o buffer]
                   /\ c2p_out' = [c2p_out EXCEPT ![s] =
                          IF sent > 0 THEN @ \o SubSeq(frame, 1, sent) ELSE @]
                   /\ UNCHANGED <<fds, bvars, g_splitters, g_splitter_count,
                                  g_next_splitter_port, in_flight, p2c_in, p2c_out, rejected, peer_lost,
                                  accepted>>

(* the stream the modelled client list relays: g_detector_clients or g_display_clients *)
ListPipe == IF list.stream_header[2] = DETECTOR_RATE THEN "det" ELSE "disp"

(* receive_and_relay into the client list of `pipe` with recv() > 0 *)
RelayData(pipe) ==
    IF pipe = ListPipe
    THEN \E n \in 1..RecvSize :
            /\ produced + n <= SplitProduced
            /\ list' = client_list_broadcast(list, [k \in 1..n |-> produced + k])
            /\ produced' = produced + n
            /\ UNCHANGED <<source_fd, wire, joined, stalls, send_errors, short_writes, residual>>
    ELSE UNCHANGED bvars

(* run(): accept on a slot's detector listen socket *)
SplitterDetAccept(s) ==
    /\ SelectOk
    /\ g_splitters[s].active
    /\ Listening(g_splitters[s].det_listen_fd)
    /\ FreeFds # {}
    /\ accepted' = accepted + 1
    /\ fds' = [fds EXCEPT ![LowestFree] =
                  Desc("peer", fds[g_splitters[s].det_listen_fd].port, "det")]
    /\ g_splitters' = [g_splitters EXCEPT ![s].det_source_fd = LowestFree]
    /\ UNCHANGED <<bvars, g_splitter_count, g_next_splitter_port, in_flight, fwd, rejected,
                   peer_lost>>

(* run(): accept on a slot's display listen socket *)
SplitterDispAccept(s) ==
    /\ SelectOk
    /\ g_splitters[s].active
    /\ Listening(g_splitters[s].disp_listen_fd)
    /\ FreeFds # {}
    /\ accepted' = accepted + 1
    /\ fds' = [fds EXCEPT ![LowestFree] =
                  Desc("peer", fds[g_splitters[s].disp_listen_fd].port, "disp")]
    /\ g_splitters' = [g_splitters EXCEPT ![s].disp_source_fd = LowestFree]
    /\ UNCHANGED <<bvars, g_splitter_count, g_next_splitter_port, in_flight, fwd, rejected,
                   peer_lost>>

(* run(): "Detector stream data - relay to clients" *)
SplitterDetRecv(s) ==
    /\ SelectOk
    /\ g_splitters[s].active
    /\ Connected(g_splitters[s].det_source_fd)
    /\ \/ (* receive_and_relay returns true *)
          /\ RelayData("det")
          /\ UNCHANGED <<fds, svars, accepted>>
       \/ (* receive_and_relay returns false *)
          /\ fds' = Close(fds, g_splitters[s].det_source_fd)
          /\ g_splitters' = [g_splitters EXCEPT ![s].det_source_fd = -1]
          /\ UNCHANGED <<bvars, g_splitter_count, g_next_splitter_port, in_flight, fwd,
                         rejected, peer_lost, accepted>>

(* run(): "Display stream data - relay to clients" *)
SplitterDispRecv(s) ==
    /\ SelectOk
    /\ g_splitters[s].active
    /\ Connected(g_splitters[s].disp_source_fd)
    /\ \/ (* receive_and_relay returns true *)
          /\ RelayData("disp")
          /\ UNCHANGED <<fds, svars, accepted>>
       \/ (* receive_and_relay returns false *)
          /\ fds' = Close(fds, g_splitters[s].disp_source_fd)
          /\ g_splitters' = [g_splitters EXCEPT ![s].disp_source_fd = -1]
          /\ UNCHANGED <<bvars, g_splitter_count, g_next_splitter_port, in_flight, fwd,
                         rejected, peer_lost, accepted>>

InitSplit == InitWith(SplitMaxFd)

NextSplit ==
    \/ /\ SelectOk
       /\ accepted < MaxAccepts
       /\ handle_source_connection
       /\ accepted' = accepted + 1
       /\ exch' = NoExch
       /\ UNCHANGED rvars
    \/ SelectOk /\ produced < SplitProduced /\ ReceiveData /\ UNCHANGED accepted /\ exch' = NoExch /\ UNCHANGED rvars
    \/ SelectOk /\ ReceiveLost /\ UNCHANGED accepted /\ exch' = NoExch /\ UNCHANGED rvars
    \/ accepted < MaxAccepts /\ handle_rendezvous_accept /\ UNCHANGED rvars
    \/ \E s \in Slots : accepted < MaxAccepts /\ handle_splitter_accept(s) /\ exch' = NoExch /\ UNCHANGED rvars
    \/ \E s \in Slots : accepted < MaxAccepts /\ SplitterDetAccept(s) /\ exch' = NoExch /\ UNCHANGED rvars
    \/ \E s \in Slots : accepted < MaxAccepts /\ SplitterDispAccept(s) /\ exch' = NoExch /\ UNCHANGED rvars
    \/ \E s \in Slots : handle_splitter_data(s, exch) /\ UNCHANGED rvars
    \/ \E s \in Slots : handle_client_to_splitter(s, exch) /\ UNCHANGED rvars
    \/ \E s \in Slots : SplitterDetRecv(s) /\ exch' = NoExch /\ UNCHANGED rvars
    \/ \E s \in Slots : SplitterDispRecv(s) /\ exch' = NoExch /\ UNCHANGED rvars

SpecSplit == InitSplit /\ [][NextSplit]_vars

(***************************************************************************)
(* The rendezvous allocator and the control channels alone: more           *)
(* connections, so that the port cursor wraps                              *)
(***************************************************************************)
NextAlloc ==
    \/ accepted < AllocAccepts /\ handle_rendezvous_accept /\ UNCHANGED rvars
    \/ \E s \in Slots : accepted < AllocAccepts /\ handle_splitter_accept(s) /\ exch' = NoExch
                        /\ UNCHANGED rvars
    \/ \E s \in Slots : handle_splitter_data(s, exch) /\ UNCHANGED rvars

SpecAlloc == InitSplit /\ [][NextAlloc]_vars

(***************************************************************************)
(* Discovery coordinator: the registry of edge nodes and services.         *)
(* g_edge_nodes and g_services are the used prefixes of the static arrays  *)
(* (their lengths are g_edge_count and g_service_count); an edge_idx is the *)
(* C index, so edge_idx k names g_edge_nodes[k + 1] here.  A service's      *)
(* registered time is written but never read by the relay.                 *)
(***************************************************************************)
DISCOVERY_PORT == 5401
MAX_EDGE_NODES == MaxEdges
MAX_SERVICES == MaxServices
EDGE_TIMEOUT_SEC == EdgeTimeout
STATUS_INTERVAL_SEC == StatusInterval

Word_cmd == <<"c", "m", "d">>
Word_helo == <<"h", "e", "l", "o">>
Word_bye == <<"b", "y", "e">>
Word_list == <<"l", "i", "s", "t">>
Word_find == <<"f", "i", "n", "d">>
Word_svc == <<"s", "v", "c">>
Word_ip == <<"i", "p">>
Word_port == <<"p", "o", "r", "t">>
Word_data == <<"d", "a", "t", "a">>
Word_caps == <<"c", "a", "p", "s">>
Word_services == <<"s", "e", "r", "v", "i", "c", "e", "s">>

(* a NULL char pointer; no C string equals it *)
NULL == <<"NULL">>

(* atoi of the digits at the start of s (the peers send no sign and no blanks) *)
RECURSIVE AtoiFrom(_, _, _)
AtoiFrom(s, i, acc) ==
    IF i > Len(s) \/ ~(\E d \in 1..10 : DigitChars[d] = s[i]) THEN acc
    ELSE AtoiFrom(s, i + 1, 10 * acc + (CHOOSE d \in 0..9 : DigitChars[d + 1] = s[i]))

json_get_int(json, key) ==
    LET pattern == <<DQ>> \o key \o <<DQ, ":">>
        start == StrStr(json, pattern)
    IN IF start = 0 THEN -1
       ELSE AtoiFrom(json, start + Len(pattern), 0)

(* printf's %d *)
SignedDecimal(n) == IF n < 0 THEN <<"-">> \o Decimal(0 - n) ELSE Decimal(n)

(* the registry as the functions below pass it on: tables, descriptors, what was sent *)
RegState == [edges |-> g_edge_nodes, services |-> g_services, fds |-> fds,
             ret |-> 0, sent |-> <<>>]

find_edge_by_fd(edges, fd) ==
    LET hits == {i \in 1..Len(edges) : edges[i].fd = fd}
    IN IF hits = {} THEN -1 ELSE (CHOOSE i \in hits : \A j \in hits : i <= j) - 1

(* an edge table that takes one edge more than MAX_EDGE_NODES *)
add_edge_node_OverCap(rs, fd, ip, t) ==
    LET idx == find_edge_by_fd(rs.edges, fd)
    IN IF idx >= 0
       THEN [rs EXCEPT !.edges[idx + 1].last_seen = t, !.ret = idx]
       ELSE [rs EXCEPT !.edges = Append(@, [fd |-> fd, ip |-> ip, last_seen |-> t,
                                            service_count |-> 0]),
                       !.ret = Len(rs.edges)]

add_edge_node(rs, fd, ip, t) ==
    LET idx == find_edge_by_fd(rs.edges, fd)
    IN IF idx >= 0
       THEN [rs EXCEPT !.edges[idx + 1].last_seen = t, !.ret = idx]
       ELSE IF Len(rs.edges) >= MAX_EDGE_NODES
            THEN [rs EXCEPT !.ret = -1]
            ELSE [rs EXCEPT !.edges = Append(@, [fd |-> fd, ip |-> ip, last_seen |-> t,
                                                 service_count |-> 0]),
                            !.ret = Len(rs.edges)]

(* a removal of services that stops at the first service of the edge it finds *)
RECURSIVE RemoveServicesOf_OnlyLast(_, _, _)
RemoveServicesOf_OnlyLast(services, idx, i) ==
    IF i < 0 THEN services
    ELSE IF services[i + 1].edge_idx = idx
         THEN RemoveAt(services, i + 1)
         ELSE RemoveServicesOf_OnlyLast(services, idx, i - 1)

(* "Remove all services from this edge": i runs from the last service down to 0 *)
RECURSIVE RemoveServicesOf(_, _, _)
RemoveServicesOf(services, idx, i) ==
    IF i < 0 THEN services
    ELSE IF services[i + 1].edge_idx = idx
         THEN RemoveServicesOf(RemoveAt(services, i + 1), idx, i - 1)
         ELSE RemoveServicesOf(services, idx, i - 1)

(* an edge removal that forgets to renumber the services of higher-indexed edges *)
remove_edge_node_NoRenumber(rs, idx) ==
    IF idx < 0 \/ idx >= Len(rs.edges) THEN rs
    ELSE [rs EXCEPT !.services = RemoveServicesOf(rs.services, idx, Len(rs.services) - 1),
                    !.fds = Close(rs.fds, rs.edges[idx + 1].fd),
                    !.edges = RemoveAt(rs.edges, idx + 1)]

remove_edge_node(rs, idx) ==
    IF idx < 0 \/ idx >= Len(rs.edges) THEN rs
    ELSE LET kept == RemoveServicesOf(rs.services, idx, Len(rs.services) - 1)
             renumbered == [i \in 1..Len(kept) |->
                               IF kept[i].edge_idx > idx
                               THEN [kept[i] EXCEPT !.edge_idx = @ - 1] ELSE kept[i]]
         IN [rs EXCEPT !.services = renumbered,
                       !.fds = Close(rs.fds, rs.edges[idx + 1].fd),
                       !.edges = RemoveAt(rs.edges, idx + 1)]

(* the index of the first service that has this id and, unless service is NULL, this
   kind; -1 if there is none *)
FirstService(services, id, service) ==
    LET hits == {i \in 1..Len(services) :
                    services[i].id = id /\ (service = NULL \/ services[i].service = service)}
    IN IF hits = {} THEN -1 ELSE (CHOOSE i \in hits : \A j \in hits : i <= j) - 1

(* a registration that appends without looking for an entry of the same id and kind *)
register_service_NoLookup(rs, edge_idx, id, service, ctrl_port, data_port, caps) ==
    IF Len(rs.services) >= MAX_SERVICES THEN [rs EXCEPT !.ret = -1]
    ELSE [rs EXCEPT !.services = Append(@, [id |-> id, service |-> service,
                                             ip |-> rs.edges[edge_idx + 1].ip,
                                             ctrl_port |-> ctrl_port, data_port |-> data_port,
                                             caps |-> caps, edge_idx |-> edge_idx]),
                    !.edges[edge_idx + 1].service_count = @ + 1,
                    !.ret = Len(rs.services)]

register_service(rs, edge_idx, id, service, ctrl_port, data_port, caps) ==
    LET i == FirstService(rs.services, id, service)
    IN IF i >= 0
       THEN [rs EXCEPT !.services[i + 1].ctrl_port = ctrl_port,
                       !.services[i + 1].data_port = data_port,
                       !.services[i + 1].caps = caps,
                       !.ret = i]
       ELSE IF Len(rs.services) >= MAX_SERVICES THEN [rs EXCEPT !.ret = -1]
            ELSE [rs EXCEPT !.services = Append(@, [id |-> id, service |-> service,
                                                     ip |-> rs.edges[edge_idx + 1].ip,
                                                     ctrl_port |-> ctrl_port,
                                                     data_port |-> data_port,
                                                     caps |-> caps, edge_idx |-> edge_idx]),
                            !.edges[edge_idx + 1].service_count = @ + 1,
                            !.ret = Len(rs.services)]

(* an unregistration that leaves the owner's service count as it is *)
unregister_service_NoCount(rs, id, service) ==
    LET i == FirstService(rs.services, id, service)
    IN IF i < 0 THEN rs
       ELSE [rs EXCEPT !.services = RemoveAt(@, i + 1)]

unregister_service(rs, id, service) ==
    LET i == FirstService(rs.services, id, service)
    IN IF i < 0 THEN rs
       ELSE LET edge_idx == rs.services[i + 1].edge_idx
                counted == IF edge_idx >= 0 /\ edge_idx < Len(rs.edges)
                           THEN [rs EXCEPT !.edges[edge_idx + 1].service_count = @ - 1]
                           ELSE rs
            IN [counted EXCEPT !.services = RemoveAt(@, i + 1)]

(* one entry of the list response *)
ServiceEntry(svc) ==
    <<"{">> \o Member(Word_id, svc.id) \o <<",">> \o Member(Word_svc, svc.service) \o <<",">>
    \o Member(Word_ip, svc.ip) \o <<",">>
    \o <<DQ>> \o Word_port \o <<DQ, ":">> \o SignedDecimal(svc.ctrl_port) \o <<",">>
    \o <<DQ>> \o Word_data \o <<DQ, ":">> \o SignedDecimal(svc.data_port) \o <<",">>
    \o Member(Word_caps, svc.caps) \o <<"}">>

RECURSIVE ListEntries(_, _, _, _)
ListEntries(services, filter_service, i, first) ==
    IF i > Len(services) THEN <<>>
    ELSE IF filter_service # NULL /\ services[i].service # filter_service
         THEN ListEntries(services, filter_service, i + 1, first)
         ELSE (IF first THEN <<>> ELSE <<",">>) \o ServiceEntry(services[i])
              \o ListEntries(services, filter_service, i + 1, FALSE)

ListHead ==
    <<"{">> \o Member(<<"m">>, <<"P", "N", "S", "D">>) \o <<",", DQ, "v", DQ, ":", "1", ",">>
    \o Member(Word_cmd, Word_list) \o <<",", DQ>> \o Word_services \o <<DQ, ":", "[">>

(* build_service_list; the tables of the model stay far below the 4096 bytes of the
   response buffer *)
build_service_list(services, filter_service) ==
    ListHead \o ListEntries(services, filter_service, 1, TRUE) \o <<"]", "}", NL>>

(* strtok(buffer, "\n"): the next token of buf from position i on, as <<first, last>>;
   <<0, 0>> when there is none *)
NextToken(buf, i) ==
    LET starts == {j \in i..Len(buf) : buf[j] # NL}
        first == IF starts = {} THEN 0 ELSE CHOOSE j \in starts : \A k \in starts : j <= k
        stop == IF first = 0 THEN 0 ELSE StrChr(buf, first, NL)
    IN IF first = 0 THEN <<0, 0>>
       ELSE <<first, IF stop = 0 THEN Len(buf) ELSE stop - 1>>

(* the tokens strtok returns for buf, in order *)
RECURSIVE TokensFrom(_, _)
TokensFrom(buf, i) ==
    LET tok == NextToken(buf, i)
    IN IF tok[1] = 0 THEN <<>>
       ELSE <<SubSeq(buf, tok[1], tok[2])>> \o TokensFrom(buf, tok[2] + 1)

(* what the edges send in one recv(): complete lines *)
HeloLine(id, svc, port, data, caps) ==
    <<"{">> \o Member(Word_cmd, Word_helo) \o <<",">> \o Member(Word_id, id) \o <<",">>
    \o Member(Word_svc, svc) \o <<",">> \o NumMember(Word_port, port) \o <<",">>
    \o NumMember(Word_data, data) \o <<",">> \o Member(Word_caps, caps) \o <<"}", NL>>
ByeLine(id, svc) ==
    Object3(Member(Word_cmd, Word_bye), Member(Word_id, id), Member(Word_svc, svc)) \o <<NL>>
ByeIdLine(id) == Object2(Member(Word_cmd, Word_bye), Member(Word_id, id)) \o <<NL>>
ListLine == <<"{">> \o Member(Word_cmd, Word_list) \o <<"}", NL>>
FindLine(svc) == Object2(Member(Word_cmd, Word_find), Member(Word_svc, svc)) \o <<NL>>
(* a line that is no object, and an object with a command the relay does not know *)
NoObjectLine == Word_helo \o <<NL>>
UnknownLine == <<"{">> \o Member(Word_cmd, Word_pong) \o <<"}", NL>>

(* the peer address of the k-th connection that is accepted: one address per connection *)
PeerIp(k) == Decimal(k)
AskLines == {ListLine, FindLine(<<"x">>)}
EdgeChunks ==
    {HeloLine(<<"a">>, <<"x">>, 7, 9, <<"c">>), HeloLine(<<"a">>, <<"x">>, 8, 10, <<"d">>),
     HeloLine(<<"a">>, <<"y">>, 7, 9, <<"c">>), HeloLine(<<"b">>, <<"x">>, 7, 9, <<"c">>),
     ByeLine(<<"a">>, <<"x">>), ByeIdLine(<<"a">>), ByeLine(<<"b">>, <<"y">>),
     NoObjectLine, UnknownLine,
     HeloLine(<<"b">>, <<"x">>, 7, 9, <<"c">>) \o ListLine}
    \cup AskLines

RESPONSE_SIZE == 4096
AskRooms == {EAGAIN, 1, RESPONSE_SIZE}

(* fewer kinds of messages, for the registry under the passing of time *)
SweepChunks ==
    {HeloLine(<<"a">>, <<"x">>, 7, 9, <<"c">>), HeloLine(<<"b">>, <<"x">>, 7, 9, <<"c">>),
     ByeIdLine(<<"a">>), ListLine, FindLine(<<"x">>)}

(* a helo cut off after its id: no svc, no port, no closing brace *)
TruncatedHelo ==
    <<"{">> \o Member(Word_cmd, Word_helo) \o <<",">> \o Member(Word_id, <<"a">>) \o <<NL>>
(* an object without a cmd, and a helo behind a blank: a line that begins with no brace *)
NoCmdLine == <<"{">> \o Member(Word_id, <<"a">>) \o <<"}", NL>>
IndentedHelo == <<" ">> \o HeloLine(<<"b">>, <<"y">>, 7, 9, <<"c">>)
(* few well-formed lines among lines that are in error *)
ErrChunks ==
    {HeloLine(<<"a">>, <<"x">>, 7, 9, <<"c">>), ListLine, NoObjectLine, UnknownLine,
     TruncatedHelo, NoCmdLine, IndentedHelo, UnknownLine \o NoCmdLine}

(* more services than the table holds *)
LimitChunks ==
    {HeloLine(<<"a">>, <<"x">>, 7, 9, <<"c">>), HeloLine(<<"a">>, <<"y">>, 7, 9, <<"c">>),
     HeloLine(<<"b">>, <<"x">>, 7, 9, <<"c">>), HeloLine(<<"b">>, <<"y">>, 7, 9, <<"c">>)}

(* the tokens of each buffer an edge can send, and what process_discovery_message
   extracts from each of these tokens: computed once for the inputs of the model *)
Tokens ==
    [buffer \in EdgeChunks \cup SweepChunks \cup ErrChunks \cup LimitChunks |->
        TokensFrom(buffer, 1)]

Extracted ==
    [msg \in UNION {Range(Tokens[buffer]) : buffer \in DOMAIN Tokens} |->
        [cmd |-> json_get_string(msg, Word_cmd, 32).out,
         id |-> json_get_string(msg, Word_id, 64).out,
         svc |-> json_get_string(msg, Word_svc, 32).out,
         caps |-> json_get_string(msg, Word_caps, 128).out,
         port |-> json_get_int(msg, Word_port),
         data |-> json_get_int(msg, Word_data)]]

process_discovery_message(rs, edge_idx, msg, t, room) ==
    LET cmd == Extracted[msg].cmd
        id == Extracted[msg].id
        svc == Extracted[msg].svc
        caps == Extracted[msg].caps
        port == Extracted[msg].port
        data == Extracted[msg].data
        filter == IF cmd = Word_find THEN svc ELSE <<>>
        response == build_service_list(rs.services, IF filter # <<>> THEN filter ELSE NULL)
        answered == SendResult(room, Len(response))
    IN IF cmd = Word_helo
       THEN [register_service(rs, edge_idx, id, svc, port, data, caps)
                EXCEPT !.edges[edge_idx + 1].last_seen = t]
       ELSE IF cmd = Word_bye
            THEN unregister_service(rs, id, IF svc # <<>> THEN svc ELSE NULL)
            ELSE IF cmd = Word_list \/ cmd = Word_find
                 THEN [rs EXCEPT !.sent = IF answered > 0
                                           THEN Append(@, SubSeq(response, 1, answered))
                                           ELSE @]
                 ELSE rs

(* a token loop that hands every line to process_discovery_message *)
RECURSIVE ProcessTokens_AnyLine(_, _, _, _, _, _)
ProcessTokens_AnyLine(rs, edge_idx, lines, i, t, room) ==
    IF i > Len(lines) THEN rs
    ELSE ProcessTokens_AnyLine(process_discovery_message(rs, edge_idx, lines[i], t, room),
                               edge_idx, lines, i + 1, t, room)

(* the token loop of handle_edge_data over the tokens of the buffer *)
RECURSIVE ProcessTokens(_, _, _, _, _, _)
ProcessTokens(rs, edge_idx, lines, i, t, room) ==
    IF i > Len(lines) THEN rs
    ELSE ProcessTokens(IF lines[i][1] = "{"
                       THEN process_discovery_message(rs, edge_idx, lines[i], t, room)
                       ELSE rs,
                       edge_idx, lines, i + 1, t, room)

(* a sweep that stops at the first edge it removes *)
RECURSIVE SweepFrom_StopsAfterOne(_, _, _)
SweepFrom_StopsAfterOne(rs, i, t) ==
    IF i < 0 THEN rs
    ELSE IF t - rs.edges[i + 1].last_seen > EDGE_TIMEOUT_SEC
         THEN remove_edge_node(rs, i)
         ELSE SweepFrom_StopsAfterOne(rs, i - 1, t)

(* the loop of check_edge_timeouts: i runs from the last edge down to 0 *)
RECURSIVE SweepFrom(_, _, _)
SweepFrom(rs, i, t) ==
    IF i < 0 THEN rs
    ELSE IF t - rs.edges[i + 1].last_seen > EDGE_TIMEOUT_SEC
         THEN SweepFrom(remove_edge_node(rs, i), i - 1, t)
         ELSE SweepFrom(rs, i - 1, t)

check_edge_timeouts(rs, t) == SweepFrom(rs, Len(rs.edges) - 1, t)

SetReg(rs) ==
    /\ g_edge_nodes' = rs.edges
    /\ g_services' = rs.services
    /\ fds' = rs.fds

(* "Accept discovery connections (edge nodes)" of run() *)
DiscoveryAccept ==
    \E ip \in {PeerIp(accepted + 1)} :
        LET fd == LowestFree
            added == add_edge_node(RegState, fd, ip, now)
        IN /\ fd >= 0
           /\ g_edge_nodes' = added.edges
           /\ fds' = IF added.ret < 0 THEN fds
                     ELSE [fds EXCEPT ![fd] = Desc("peer", DISCOVERY_PORT, "none")]
           /\ accepted' = accepted + 1
           /\ exch' = [kind |-> "accept", slot |-> added.ret, msg |-> ip, sent |-> <<>>,
                       err |-> added.ret < 0]
           /\ UNCHANGED <<bvars, svars, g_services, now, g_last_status_time>>

(* handle_edge_data for the edge at edge_idx, whose recv() returns one of chunks; `again`
   is the ghost that a recv() with nothing to take leaves (exch itself where the step is
   not noted) *)
EdgeData(edge_idx, chunks, again) ==
    /\ edge_idx < Len(g_edge_nodes)
    /\ \/ (* EAGAIN *)
          /\ exch' = again
          /\ UNCHANGED <<fds, bvars, svars, accepted, rvars>>
       \/ (* EOF or error *)
          /\ SetReg(remove_edge_node(RegState, edge_idx))
          /\ exch' = [kind |-> "edge lost", slot |-> edge_idx, msg |-> <<>>, sent |-> <<>>,
                      err |-> FALSE]
          /\ UNCHANGED <<bvars, svars, accepted, now, g_last_status_time>>
       \/ (* received > 0 *)
          \E buffer \in chunks :
             \E room \in (IF \E a \in AskLines : StrStr(buffer, a) > 0
                          THEN AskRooms ELSE {RESPONSE_SIZE}) :
                \E rs \in {ProcessTokens(RegState, edge_idx, Tokens[buffer], 1, now, room)} :
                   /\ SetReg(rs)
                   /\ exch' = [kind |-> "disc", slot |-> edge_idx, msg |-> buffer,
                               sent |-> rs.sent, err |-> FALSE]
                   /\ UNCHANGED <<bvars, svars, accepted, now, g_last_status_time>>

handle_edge_data(edge_idx) == EdgeData(edge_idx, EdgeChunks, exch)

(* the clock reaches the next second and the loop calls print_status, which sweeps the
   edges when the status interval has elapsed.  The program only ever compares
   differences of times, so once the clock shows MaxTime the origin of time moves
   forward by a second instead: the clock stays and every stored time goes back by one.
   A last_seen that is already 0 stays 0: its edge is MaxTime > EDGE_TIMEOUT_SEC seconds
   old and the next sweep removes it whatever its age. *)
print_status ==
    \E t \in {now + 1} :
       \E due \in {t - g_last_status_time >= STATUS_INTERVAL_SEC} :
          \E rs \in {IF due THEN check_edge_timeouts(RegState, t) ELSE RegState} :
             LET back == IF t > MaxTime THEN 1 ELSE 0
             IN /\ now' = t - back
                /\ g_last_status_time' = (IF due THEN t ELSE g_last_status_time) - back
                /\ g_edge_nodes' = [i \in DOMAIN rs.edges |->
                                      [rs.edges[i] EXCEPT
                                          !.last_seen = IF @ >= back THEN @ - back ELSE 0]]
                /\ g_services' = rs.services
                /\ fds' = rs.fds
                /\ exch' = IF due
                           THEN [kind |-> "sweep", slot |-> Len(g_edge_nodes) - Len(rs.edges),
                                 msg |-> <<>>, sent |-> <<>>, err |-> FALSE]
                           ELSE NoExch
                /\ g_splitters' = [s \in Slots |->
                                      [g_splitters[s] EXCEPT
                                          !.last_seen = IF @ >= back THEN @ - back ELSE 0]]
                /\ UNCHANGED <<bvars, g_splitter_count, g_next_splitter_port, in_flight,
                               fwd, rejected, peer_lost, accepted>>

(* the registry alone; the broadcast list plays no part and is the detector's *)
InitReg == InitWith(RegMaxFd) /\ list = client_list_init(DETECTOR_RATE)

NextReg ==
    \/ accepted < RegAccepts /\ DiscoveryAccept
    \/ \E i \in 0..(MaxEdges - 1) : handle_edge_data(i)

SpecReg == InitReg /\ [][NextReg]_vars

(* the registry under the passing of time, with fewer kinds of messages *)
NextSweep ==
    \/ accepted < RegAccepts /\ DiscoveryAccept
    \/ \E i \in 0..(MaxEdges - 1) : EdgeData(i, SweepChunks, exch)
    \/ print_status

SpecSweep == InitReg /\ [][NextSweep]_vars

(* the registry fed with lines that are in error *)
NextErr ==
    \/ accepted < RegAccepts /\ DiscoveryAccept
    \/ \E i \in 0..(MaxEdges - 1) : EdgeData(i, ErrChunks, exch)

SpecErr == InitReg /\ [][NextErr]_vars

(***************************************************************************)
(* Slots and edges under the passing of time: select() returns at least    *)
(* every 100 ms, so the loop keeps reaching print_status while the clock   *)
(* runs.                                                                    *)
(***************************************************************************)
NextIdle ==
    \/ accepted < IdleAccepts /\ handle_rendezvous_accept /\ UNCHANGED rvars
    \/ \E s \in Slots : accepted < IdleAccepts /\ handle_splitter_accept(s) /\ exch' = NoExch
                        /\ UNCHANGED rvars
    \/ \E s \in Slots : handle_splitter_data(s, exch) /\ UNCHANGED rvars
    \/ accepted < IdleAccepts /\ DiscoveryAccept
    \/ print_status

SpecIdle == InitSplit /\ [][NextIdle]_vars /\ WF_vars(print_status)

(***************************************************************************)
(* Every kind of peer the relay receives from, with the receives that find *)
(* nothing to take noted in the ghost                                      *)
(***************************************************************************)
AgainChunks == {HeloLine(<<"a">>, <<"x">>, 7, 9, <<"c">>)}

NextAgain ==
    \/ /\ SelectOk
       /\ accepted < AgainAccepts
       /\ handle_source_connection
       /\ accepted' = accepted + 1
       /\ exch' = NoExch
       /\ UNCHANGED rvars
    \/ SelectOk /\ ReceiveAgain(AgainExch)
    \/ SelectOk /\ ReceiveLost /\ UNCHANGED accepted /\ exch' = NoExch /\ UNCHANGED rvars
    \/ accepted < AgainAccepts /\ handle_rendezvous_accept /\ UNCHANGED rvars
    \/ \E s \in Slots : accepted < AgainAccepts /\ handle_splitter_accept(s) /\ exch' = NoExch
                        /\ UNCHANGED rvars
    \/ \E s \in Slots : handle_splitter_data(s, AgainExch) /\ UNCHANGED rvars
    \/ \E s \in Slots : handle_client_to_splitter(s, AgainExch) /\ UNCHANGED rvars
    \/ accepted < AgainAccepts /\ DiscoveryAccept
    \/ \E i \in 0..(MaxEdges - 1) : EdgeData(i, AgainChunks, AgainExch)

SpecAgain == InitSplit /\ [][NextAgain]_vars

(***************************************************************************)
(* Shutdown.  signal_handler clears g_running; run() tests it before each  *)
(* iteration, so the handlers of the iteration under way finish, and main  *)
(* then closes the descriptors it names: the producer's socket, the edges' *)
(* sockets, the four fixed listeners (which are no entries of fds) and the *)
(* consumers' sockets.  The tables themselves are left as they are.  The   *)
(* ghost notes that the process has stopped.                               *)
(***************************************************************************)
Running == exch.kind # "shutdown"

Shutdown ==
    /\ Running
    /\ LET closing == (IF source_fd >= 0 THEN {source_fd} ELSE {})
                       \cup {g_edge_nodes[i].fd : i \in 1..Len(g_edge_nodes)}
                       \cup {list.clients[i].fd : i \in 1..Len(list.clients)}
       IN fds' = [f \in DOMAIN fds |-> IF f \in closing THEN FreeDesc ELSE fds[f]]
    /\ exch' = [kind |-> "shutdown", slot |-> -1, msg |-> <<>>, sent |-> <<>>, err |-> FALSE]
    /\ UNCHANGED <<bvars, svars, accepted, rvars>>

NextStop ==
    \/ /\ Running
       /\ SelectOk
       /\ accepted < StopAccepts
       /\ handle_source_connection
       /\ accepted' = accepted + 1
       /\ exch' = NoExch
       /\ UNCHANGED rvars
    \/ Running /\ accepted < StopAccepts /\ handle_rendezvous_accept /\ UNCHANGED rvars
    \/ \E s \in Slots : Running /\ accepted < StopAccepts /\ handle_splitter_accept(s)
                        /\ exch' = NoExch /\ UNCHANGED rvars
    \/ \E s \in Slots : Running /\ handle_splitter_data(s, exch) /\ UNCHANGED rvars
    \/ Running /\ accepted < StopAccepts /\ DiscoveryAccept
    \/ Shutdown

SpecStop == InitSplit /\ [][NextStop]_vars

(***************************************************************************)
(* The two conversions of the SDR passthrough, one after the other:        *)
(* splitter_send_sdr wraps a payload into an s frame, and the s branch of  *)
(* process_splitter_message takes the d field of a frame and unescapes it. *)
(***************************************************************************)
PayloadChars == {"a", "n", DQ, BS, NL, CR, TAB}

RECURSIVE PayloadsOf(_)
PayloadsOf(len) ==
    IF len = 0 THEN {<<>>}
    ELSE {Append(p, c) : p \in PayloadsOf(len - 1), c \in PayloadChars}

Payloads == UNION {PayloadsOf(len) : len \in 0..MaxPayload}

(* what the s branch of process_splitter_message sends to the client for the line msg *)
SdrData(msg) ==
    LET d == json_get_string(msg, Word_d, 4096)
    IN IF d.ret > 0 THEN json_unescape(d.out) ELSE <<>>

(* the relay wraps data and reads its own frame, without the newline that ends the line *)
SdrRoundTrip ==
    \E data \in Payloads :
       LET frame == SdrFrame(data)
       IN /\ exch' = [kind |-> "sdr", slot |-> -1, msg |-> data,
                      sent |-> <<frame, SdrData(SubSeq(frame, 1, Len(frame) - 1))>>,
                      err |-> FALSE]
          /\ UNCHANGED <<fds, bvars, svars, accepted, rvars>>

SpecSdr == InitSplit /\ [][SdrRoundTrip]_vars

(***************************************************************************)
(* The three kinds of connection that take a place in a table: consumers,  *)
(* rendezvous peers and edges                                               *)
(***************************************************************************)
NextCaps ==
    \/ /\ accepted < CapAccepts
       /\ ConsumerAccept
       /\ accepted' = accepted + 1
       /\ exch' = NoExch
       /\ UNCHANGED rvars
    \/ accepted < CapAccepts /\ handle_rendezvous_accept /\ UNCHANGED rvars
    \/ accepted < CapAccepts /\ DiscoveryAccept

SpecCaps == InitSplit /\ [][NextCaps]_vars

(***************************************************************************)
(* The control stream of a producer, cut into receives at any place, under *)
(* the passing of time                                                     *)
(***************************************************************************)
(* three messages and an empty line between them *)
FrameStream ==
    PongMsg \o <<NL>> \o SdrMsg(<<"a">>) \o <<NL, NL>> \o PongMsg \o <<NL>>

(* the producer of slot s writes the stream to its control connection *)
ProducerSends(s) ==
    /\ g_splitters[s].active
    /\ g_splitters[s].ctrl_fd >= 0
    /\ Connected(g_splitters[s].ctrl_fd)
    /\ in_flight[s] = <<>>
    /\ Forwarded(Slots) < MaxFwd
    /\ in_flight' = [in_flight EXCEPT ![s] = FrameStream]
    /\ exch' = NoExch
    /\ UNCHANGED <<fds, bvars, g_splitters, g_splitter_count, g_next_splitter_port, fwd,
                   rejected, peer_lost, accepted, rvars>>

NextFrame ==
    \/ accepted < FrameAccepts /\ handle_rendezvous_accept /\ UNCHANGED rvars
    \/ \E s \in Slots : accepted < FrameAccepts /\ handle_splitter_accept(s) /\ exch' = NoExch
                        /\ UNCHANGED rvars
    \/ \E s \in Slots : ProducerSends(s)
    \/ \E s \in Slots : SplitterData(s, exch, {}, 1..Len(FrameStream)) /\ UNCHANGED rvars
    \/ print_status

SpecFrame == InitSplit /\ [][NextFrame]_vars

(***************************************************************************)
(* The four tables at their limits: consumers, slots, edges and services   *)
(***************************************************************************)
NextLimits ==
    \/ /\ accepted < LimitAccepts
       /\ ConsumerArrives
       /\ accepted' = accepted + 1
       /\ exch' = NoExch
       /\ UNCHANGED rvars
    \/ accepted < LimitAccepts /\ handle_rendezvous_accept /\ UNCHANGED rvars
    \/ accepted < LimitAccepts /\ DiscoveryAccept
    \/ \E i \in 0..(MaxEdges - 1) : EdgeData(i, LimitChunks, exch)

SpecLimits == InitSplit /\ [][NextLimits]_vars

(***************************************************************************)
(* sdr_controller: a process of its own, which connects to sdr_server and  *)
(* sends it commands. Its state is carried in exch once main has begun: pc *)
(* is its position in main,                                                *)
(* inbox the bytes sdr_server has written that recv() has not taken        *)
(* yet, peer_open whether sdr_server still holds the connection. cmds,     *)
(* start_answer and status note what was sent, what sdr_server answered    *)
(* to the START of main and the exit status of the process (-1 while it    *)
(* runs).                                                                  *)
(***************************************************************************)
SetupCommands == <<"VER", "STATUS", "SET_FREQ", "SET_GAIN">>
TypedCommands == {"STATUS", "STOP", "START"}

(* a line that does not fit the response buffer, and goes on with OK *)
LongLine == [k \in 1..(MaxLine - 1) |-> "E"] \o <<"O", "K">>
(* the lines sdr_server answers with, without the newline that ends them *)
Replies == {<<"O", "K">>, <<"O", "K", CR>>, <<"E">>, <<"O">>, LongLine}
Closed == <<"closed">>

CtlInit ==
    [kind |-> "ctl", pc |-> "begin", help |-> FALSE, interactive |-> FALSE,
     connected |-> FALSE, peer_open |-> TRUE, inbox |-> <<>>, response |-> <<>>,
     cmds |-> <<>>, typed |-> 0, start_answer |-> <<>>, ret |-> 1, status |-> -1]
Ctl == exch.kind = "ctl"

(* the loop of recv_line: one byte at a time into buf until a newline, leaving out
   carriage returns, at most buf_size - 1 bytes; -1 when recv() returns nothing more *)
RECURSIVE RecvLoop(_, _, _)
RecvLoop(stream, buf, buf_size) ==
    IF Len(buf) >= buf_size - 1 THEN [ret |-> Len(buf), buf |-> buf, rest |-> stream]
    ELSE IF stream = <<>> THEN [ret |-> -1, buf |-> buf, rest |-> <<>>]
    ELSE IF Head(stream) = NL THEN [ret |-> Len(buf), buf |-> buf, rest |-> Tail(stream)]
    ELSE IF Head(stream) = CR THEN RecvLoop(Tail(stream), buf, buf_size)
    ELSE RecvLoop(Tail(stream), Append(buf, Head(stream)), buf_size)

recv_line(stream, buf_size) == RecvLoop(stream, <<>>, buf_size)

(* strncmp(response, "OK", 2) == 0 *)
BeginsWithOK(line) == Len(line) >= 2 /\ line[1] = "O" /\ line[2] = "K"

(* send_command on the controller state c: sent tells whether send() took the whole
   line, answer is the line sdr_server writes back, or Closed when it closes the
   connection instead. The result is the state after the call and its return value. *)
send_command(c, cmd, sent, answer) ==
    LET noted == [c EXCEPT !.cmds = Append(@, cmd),
                           !.start_answer =
                               IF cmd = "START" /\ Len(c.cmds) = Len(SetupCommands)
                                  /\ sent /\ answer # Closed
                               THEN answer ELSE @]
    IN IF ~sent THEN [c |-> noted, ret |-> -1]
       ELSE LET stream == IF answer = Closed THEN c.inbox ELSE c.inbox \o answer \o <<NL>>
                r == recv_line(stream, MaxLine)
                after == [noted EXCEPT !.inbox = r.rest,
                                       !.peer_open = @ /\ answer # Closed,
                                       !.response = r.buf]
            IN IF r.ret < 0 THEN [c |-> after, ret |-> -1]
               ELSE [c |-> after, ret |-> IF BeginsWithOK(r.buf) THEN 0 ELSE -1]

(* what sdr_server may do when a command reaches it *)
Answers(c) == IF c.peer_open THEN Replies \cup {Closed} ELSE {Closed}

(* the cleanup label of main and its return *)
Cleanup(c) == [c EXCEPT !.pc = "exit", !.connected = FALSE, !.status = c.ret]

CtlUnchanged == UNCHANGED <<fds, bvars, svars, accepted, rvars>>

(* main up to the moment an address of sdr_server is known: the arguments, the
   socket library, discovery *)
main_begin ==
    /\ exch = NoExch
    /\ \E outcome \in {"help", "failed", "found"}, i \in BOOLEAN :
          exch' = IF outcome = "help"
                  THEN [CtlInit EXCEPT !.pc = "exit", !.help = TRUE, !.status = 0]
                  ELSE IF outcome = "failed"
                  THEN [CtlInit EXCEPT !.pc = "exit", !.status = 1]
                  ELSE [CtlInit EXCEPT !.pc = "connect", !.interactive = i]
    /\ CtlUnchanged

(* socket() and connect() *)
main_connect ==
    /\ Ctl /\ exch.pc = "connect"
    /\ \E ok \in BOOLEAN :
          exch' = IF ok THEN [exch EXCEPT !.pc = "setup", !.connected = TRUE]
                  ELSE Cleanup(exch)
    /\ CtlUnchanged

(* VER, STATUS, SET_FREQ, SET_GAIN: the return value of send_command is not used *)
main_setup ==
    /\ Ctl /\ exch.pc = "setup"
    /\ \E sent \in BOOLEAN, answer \in Answers(exch) :
          LET cmd == SetupCommands[Len(exch.cmds) + 1]
              r == send_command(exch, cmd, sent, answer)
          IN exch' = [r.c EXCEPT !.pc = IF Len(r.c.cmds) = Len(SetupCommands)
                                         THEN "start" ELSE "setup"]
    /\ CtlUnchanged

(* START: anything but 0 from send_command goes to cleanup with ret 1 *)
main_start ==
    /\ Ctl /\ exch.pc = "start"
    /\ \E sent \in BOOLEAN, answer \in Answers(exch) :
          LET r == send_command(exch, "START", sent, answer)
          IN exch' = IF r.ret # 0 THEN Cleanup(r.c)
                     ELSE [r.c EXCEPT !.pc = IF r.c.interactive THEN "interactive"
                                             ELSE "verify"]
    /\ CtlUnchanged

(* without -i: one more STATUS, then ret = 0 and cleanup *)
main_verify ==
    /\ Ctl /\ exch.pc = "verify"
    /\ \E sent \in BOOLEAN, answer \in Answers(exch) :
          LET r == send_command(exch, "STATUS", sent, answer)
          IN exch' = Cleanup([r.c EXCEPT !.ret = 0])
    /\ CtlUnchanged

(* interactive_loop: a typed command is sent as it is; quit, exit and the end of the
   input send QUIT or nothing and leave the loop, then ret = 0 and cleanup *)
interactive_loop ==
    /\ Ctl /\ exch.pc = "interactive"
    /\ \/ /\ exch.typed < MaxTyped
          /\ \E cmd \in TypedCommands, sent \in BOOLEAN, answer \in Answers(exch) :
                exch' = [send_command(exch, cmd, sent, answer).c EXCEPT !.typed = @ + 1]
       \/ \E sent \in BOOLEAN, answer \in Answers(exch) :
             exch' = Cleanup([send_command(exch, "QUIT", sent, answer).c EXCEPT !.ret = 0])
       \/ exch' = Cleanup([exch EXCEPT !.ret = 0])
    /\ CtlUnchanged

NextCtl ==
    \/ main_begin
    \/ main_connect
    \/ main_setup
    \/ main_start
    \/ main_verify
    \/ interactive_loop

SpecCtl == InitSplit /\ [][NextCtl]_vars

(***************************************************************************)
(* Properties of the broadcast stream                                      *)
(***************************************************************************)
AttachedFds == {list.clients[i].fd : i \in 1..Len(list.clients)}
IsPayload(b) == b \in 1..MaxProduced
Payload(w) == SelectSeq(w, IsPayload)
Increasing(s) == \A p, q \in 1..Len(s) : p < q => s[p] < s[q]
IsPrefix(s, t) == Len(s) <= Len(t) /\ SubSeq(t, 1, Len(s)) = s
(* the producer bytes broadcast since the consumer on fd was attached *)
StreamSince(fd) == [k \in 1..(produced - joined[fd]) |-> joined[fd] + k]

(* C1: no byte taken from a consumer's ring is accepted by its socket unless the
   complete stream header was sent on that socket earlier. *)
C1_HeaderBeforePayload ==
    \A i \in 1..Len(list.clients) :
        LET w == wire[list.clients[i].fd]
            hdr == list.stream_header
        IN \A p \in 1..Len(w) :
              IsPayload(w[p]) =>
                  \E k \in 0..(p - 1 - Len(hdr)) : SubSeq(w, k + 1, k + Len(hdr)) = hdr

(* C2: for a consumer whose ring never overflowed, the bytes its socket accepted
   are a prefix of the stream header followed by the producer bytes broadcast since
   it was attached. *)
C2_WireIsHeaderThenStream ==
    \A i \in 1..Len(list.clients) :
        LET c == list.clients[i]
        IN c.buffer.overflows = 0 =>
              IsPrefix(wire[c.fd], list.stream_header \o StreamSince(c.fd))

(* C3: after a would-block or partial data send the unsent bytes are back at the
   front of the ring: the payload bytes sent so far followed by the bytes still
   buffered are in the order the producer wrote them. *)
C3_PutBackKeepsOrder ==
    \A i \in 1..Len(list.clients) :
        LET c == list.clients[i]
        IN Increasing(Payload(wire[c.fd]) \o Contents(c.buffer))

(* C4: W > capacity bytes broadcast into a ring that was never read leave exactly
   the last `capacity` producer bytes in it, in order, with overflows = W - capacity;
   every write returned its full length and the consumer is still attached. *)
C4_OverwriteKeepsLastBytes ==
    \A i \in 1..Len(list.clients) :
        LET c == list.clients[i]
            W == produced - joined[c.fd]
        IN (c.buffer.bytes_sent = 0 /\ W > Capacity) =>
              /\ Contents(c.buffer) = [k \in 1..Capacity |-> produced - Capacity + k]
              /\ c.buffer.overflows = W - Capacity
              /\ short_writes = 0
              /\ fds[c.fd].kind = "consumer"

C4_Witness ==
    \E i \in 1..Len(list.clients) :
        /\ list.clients[i].buffer.bytes_sent = 0
        /\ produced - joined[list.clients[i].fd] > Capacity
        /\ list.clients[i].buffer.overflows > 0

(* C5: consumers leave the list only through sends that failed with a hard error,
   one consumer per failed send; and a broadcast appends the new bytes to every
   attached consumer's ring, whatever the fill of the rings. *)
C5_DropOnlyOnSendError ==
    [][/\ Cardinality(AttachedFds \ AttachedFds') = send_errors' - send_errors
       /\ produced' > produced =>
             /\ Len(list'.clients) = Len(list.clients)
             /\ \A i \in 1..Len(list.clients) :
                   LET n == Min(produced' - produced, Capacity)
                       after == Contents(list'.clients[i].buffer)
                   IN /\ list'.clients[i].fd = list.clients[i].fd
                      /\ Len(after) >= n
                      /\ SubSeq(after, Len(after) - n + 1, Len(after))
                            = [k \in 1..n |-> produced' - n + k]]_vars

C5_Witness ==
    /\ send_errors > 0
    /\ stalls > 0
    /\ \E i \in 1..Len(list.clients) :
          /\ list.clients[i].buffer.overflows > 0
          /\ list.clients[i].buffer.count = Capacity

(* C7: losing the source leaves the client list as it is; and from any moment at
   which the source is down, a consumer whose socket accepts every send gets, unless
   a new source connects first, to an empty ring while still attached, having been
   sent every byte that was buffered for it when the source was lost. *)
C7_DrainsAfterSourceLoss ==
    /\ [][(source_fd # NOFD /\ source_fd' = NOFD) => list' = list]_vars
    /\ [](source_fd = NOFD /\ GoodFd \in AttachedFds =>
             <>(\/ source_fd # NOFD
                \/ /\ GoodFd \in AttachedFds
                   /\ BufferedOn(GoodFd) = {}
                   /\ residual \subseteq Range(wire[GoodFd])))

C7_Witness ==
    /\ source_fd = NOFD
    /\ GoodFd \in AttachedFds
    /\ residual # {}
    /\ BufferedOn(GoodFd) = {}
    /\ residual \subseteq Range(wire[GoodFd])

(***************************************************************************)
(* Properties of the stream sources and of the slots' control channels     *)
(***************************************************************************)
(* the sockets run() reads as byte sources of the modelled client list *)
SourceFds ==
    {f \in {source_fd} \cup
           {IF ListPipe = "det" THEN g_splitters[s].det_source_fd
                                ELSE g_splitters[s].disp_source_fd :
               s \in {i \in Slots : g_splitters[i].active}} : Connected(f)}

(* the open sockets that were accepted as producers of the modelled client list *)
ProducerFds ==
    {f \in DOMAIN fds : \/ fds[f].kind = "source"
                        \/ fds[f].kind = "peer" /\ fds[f].pipe = ListPipe}

(* C6: at most one open socket is a byte source of a broadcast pipe, and a producer
   socket that was replaced is closed: every open socket accepted as a producer of
   the pipe is the one attached source. *)
C6_OneSourcePerPipe ==
    /\ Cardinality(SourceFds) <= 1
    /\ ProducerFds \subseteq SourceFds

(* the open sockets accepted on the control port of slot s *)
CtlPeers(s) ==
    {f \in DOMAIN fds : /\ fds[f].kind = "peer"
                        /\ fds[f].pipe = "ctl"
                        /\ fds[f].port = g_splitters[s].assigned_port}

(* C8: the connections accepted on a slot's control port fill the producer's place
   first, the client's place second; with both filled, a further connection is closed
   and changes neither place: the open sockets accepted on the port are at most the
   two the slot records. *)
C8_AtMostTwoPeers ==
    /\ [](\A s \in Slots :
             g_splitters[s].active =>
                 /\ CtlPeers(s) \subseteq {g_splitters[s].ctrl_fd, g_splitters[s].client_fd}
                 /\ g_splitters[s].client_fd >= 0 => g_splitters[s].ctrl_fd >= 0)
    /\ [][\A s \in Slots :
             LET sp == g_splitters[s]
                 new == {f \in DOMAIN fds : fds[f].kind = "free" /\ fds'[f].kind = "peer"
                                            /\ fds'[f].pipe = "ctl"
                                            /\ fds'[f].port = sp.assigned_port}
             IN (sp.active /\ g_splitters'[s].active) =>
                   /\ (new # {} /\ sp.ctrl_fd < 0) =>
                         /\ new = {g_splitters'[s].ctrl_fd}
                         /\ g_splitters'[s].client_fd = sp.client_fd
                   /\ (new # {} /\ sp.ctrl_fd >= 0) =>
                         /\ sp.client_fd < 0
                         /\ new = {g_splitters'[s].client_fd}
                         /\ g_splitters'[s].ctrl_fd = sp.ctrl_fd
                   /\ (sp.ctrl_fd >= 0 /\ sp.client_fd >= 0) =>
                         /\ g_splitters'[s].ctrl_fd = sp.ctrl_fd
                         /\ g_splitters'[s].client_fd \in {sp.client_fd, -1}
                         /\ CtlPeers(s)' \subseteq CtlPeers(s)]_vars

C8_Witness ==
    \E s \in Slots :
        /\ g_splitters[s].active
        /\ rejected[s]
        /\ Cardinality(CtlPeers(s)) = 2
        /\ CtlPeers(s) = {g_splitters[s].ctrl_fd, g_splitters[s].client_fd}

(* the sockets of slot s that the step closed *)
ClosedBy(s) ==
    {f \in {g_splitters[s].ctrl_fd, g_splitters[s].client_fd, g_splitters[s].listen_fd} :
        f >= 0 /\ fds'[f].kind = "free"}

(* C9 as claimed: EOF or an error on either side of a slot's control channel closes
   only that side's socket; the partner's socket and the listen socket stay open and
   the slot stays active. *)
C9_EitherSideClosesOnlyItself ==
    [][\A s \in Slots :
          g_splitters[s].active =>
              /\ "producer" \in peer_lost'[s] \ peer_lost[s] =>
                    /\ ClosedBy(s) = {g_splitters[s].ctrl_fd}
                    /\ g_splitters'[s].active
                    /\ g_splitters'[s].client_fd = g_splitters[s].client_fd
              /\ "client" \in peer_lost'[s] \ peer_lost[s] =>
                    /\ ClosedBy(s) = {g_splitters[s].client_fd}
                    /\ g_splitters'[s].active
                    /\ g_splitters'[s].ctrl_fd = g_splitters[s].ctrl_fd]_vars

(* C9 amended: EOF or an error on the client side closes only the client's socket and
   changes nothing else of the slot, so a client can connect again; EOF or an error on
   the producer side destroys the slot: its producer, client and listen sockets are
   closed and the slot is free. *)
C9_ClientSideClosesOnlyItself ==
    [][\A s \in Slots :
          g_splitters[s].active =>
              /\ "client" \in peer_lost'[s] \ peer_lost[s] =>
                    /\ ClosedBy(s) = {g_splitters[s].client_fd}
                    /\ g_splitters' = [g_splitters EXCEPT ![s].client_fd = -1]
                    /\ fds' = Close(fds, g_splitters[s].client_fd)
                    /\ g_splitter_count' = g_splitter_count
              /\ "producer" \in peer_lost'[s] \ peer_lost[s] =>
                    /\ ClosedBy(s) = {f \in {g_splitters[s].ctrl_fd, g_splitters[s].client_fd,
                                             g_splitters[s].listen_fd} : f >= 0}
                    /\ ~g_splitters'[s].active
                    /\ g_splitter_count' = g_splitter_count - 1]_vars

C9_Witness ==
    \E s \in Slots :
        /\ peer_lost[s] = {"client", "producer"}
        /\ ~g_splitters[s].active
        /\ g_splitters[s].listen_fd = -1
        /\ g_splitter_count = 0

(* ghost: the payloads of the complete s frames in the characters w *)
RECURSIVE Delivered(_)
Delivered(w) ==
    LET newline == StrChr(w, 1, NL)
    IN IF newline = 0 THEN <<>>
       ELSE FramePayload(SubSeq(w, 1, newline - 1)) \o Delivered(SubSeq(w, newline + 1, Len(w)))

(* C10: on a slot's control channel the bytes delivered to the producer are the bytes
   the clients sent, in order, and the bytes delivered to the clients are the bytes
   the producer sent for them, in order, whatever the results of the sends. *)
C10_ForwardsEveryByte ==
    \A s \in Slots :
        /\ Delivered(c2p_out[s]) = c2p_in[s]
        /\ p2c_out[s] = p2c_in[s]

(***************************************************************************)
(* Properties of the rendezvous allocator                                  *)
(***************************************************************************)
(* the number a reply carries under "key":, -1 when it has no such member *)
ReplyNumber(reply, key) ==
    LET pattern == <<DQ>> \o key \o <<DQ, ":">>
        found == StrStr(reply, pattern)
    IN IF found = 0 THEN -1
       ELSE AtoiFrom(reply, found + Len(pattern), 0)

(* the rendezvous connection of the step brought a hello, a slot was free, and the
   port under the cursor could be bound *)
HelloServable ==
    /\ exch'.msg = HelloMsg \o <<NL>>
    /\ \E s \in Slots : ~g_splitters[s].active
    /\ ~\E f \in DOMAIN fds : fds[f].kind = "listen" /\ fds[f].port = g_next_splitter_port
    /\ Cardinality(FreeFds) >= 2

RendezvousClosed ==
    \A f \in DOMAIN fds : ~(fds[f].kind = "peer" /\ fds[f].port = RENDEZVOUS_PORT)

(* C11: a rendezvous connection that brings a hello while a slot is free and the port
   can be bound is sent exactly one assign reply naming a port p of the pool (unless the
   send itself fails); the step leaves exactly one new active slot with assigned port p,
   a listen socket on p and no producer and no client.  In every other outcome no reply
   is sent and slots and sockets are as before.  The rendezvous socket is closed in
   every outcome. *)
C11_HelloGetsOneAssign ==
    [][exch'.kind = "rendezvous" =>
          /\ RendezvousClosed'
          /\ (HelloServable /\ ~exch'.err) =>
                LET reply == exch'.sent[1]
                    p == ReplyNumber(reply, Word_p)
                    s == exch'.slot
                IN /\ Len(exch'.sent) = 1
                   /\ reply = AssignReply(p)
                   /\ SPLITTER_PORT_BASE <= p /\ p <= SPLITTER_PORT_MAX
                   /\ {i \in Slots : g_splitters'[i].active /\ ~g_splitters[i].active} = {s}
                   /\ \A i \in Slots \ {s} : g_splitters'[i] = g_splitters[i]
                   /\ g_splitter_count' = g_splitter_count + 1
                   /\ g_splitters'[s].assigned_port = p
                   /\ fds'[g_splitters'[s].listen_fd] = Desc("listen", p, "none")
                   /\ g_splitters'[s].ctrl_fd = -1
                   /\ g_splitters'[s].client_fd = -1
          /\ ~(HelloServable /\ ~exch'.err) =>
                /\ exch'.sent = <<>>
                /\ g_splitters' = g_splitters
                /\ g_splitter_count' = g_splitter_count
                /\ fds' = fds]_vars

C11_Witness ==
    /\ exch.kind = "rendezvous"
    /\ exch.slot = 1
    /\ exch.sent = <<AssignReply(g_splitters[1].assigned_port)>>
    /\ g_splitters[1].active
    /\ g_splitters[0].active
    /\ g_splitters[1].assigned_port > SPLITTER_PORT_BASE
    /\ fds[g_splitters[1].listen_fd].kind = "listen"
    /\ RendezvousClosed

(* the ports that have a listen socket of the relay *)
BoundPorts == {fds[f].port : f \in {g \in DOMAIN fds : fds[g].kind = "listen"}}

(* C12: the port an assign reply names is none of the control ports of the slots that
   are active, and no socket of the relay was listening on it when the hello arrived;
   so the active slots have pairwise distinct control ports, each bound by the slot's
   own listen socket, also after the port cursor has wrapped. *)
C12_ReturnedPortsDistinct ==
    /\ [](\A s \in Slots :
             g_splitters[s].active =>
                 /\ g_splitters[s].listen_fd \in DOMAIN fds
                 /\ fds[g_splitters[s].listen_fd] =
                        Desc("listen", g_splitters[s].assigned_port, "none")
                 /\ \A t \in Slots \ {s} :
                        g_splitters[t].active =>
                            g_splitters[t].assigned_port # g_splitters[s].assigned_port)
    /\ [][(exch'.kind = "rendezvous" /\ exch'.sent # <<>>) =>
             LET p == ReplyNumber(exch'.sent[1], Word_p)
             IN /\ p \notin BoundPorts
                /\ \A s \in Slots : g_splitters[s].active => g_splitters[s].assigned_port # p
                /\ g_splitters'[exch'.slot].assigned_port = p]_vars

(* a port is returned after the cursor has wrapped, while a slot of an earlier hello
   is still active *)
C12_Witness ==
    /\ exch.kind = "rendezvous"
    /\ exch.sent # <<>>
    /\ \E s, t \in Slots :
          /\ s = exch.slot
          /\ t # s
          /\ g_splitters[s].active /\ g_splitters[t].active
          /\ ReplyNumber(exch.sent[1], Word_p) = g_splitters[s].assigned_port
          /\ g_splitters[t].assigned_port > g_splitters[s].assigned_port

(* a control line that process_splitter_message takes for a ready message *)
IsReady(line) ==
    LET type == json_get_string(line, Word_t, 8)
        cmd == json_get_string(line, Word_c, 32)
    IN /\ type.ret > 0 /\ type.out[1] = "r"
       /\ cmd.ret >= 0 /\ cmd.out = Word_ready

SaysHasSdr(line) ==
    LET has_sdr_str == json_get_string(line, Word_has_sdr, 16)
    IN has_sdr_str.ret >= 0 /\ has_sdr_str.out = Word_true

(* C13: a step that handles the first ready message of the producer of an active slot,
   with two descriptors free and the reply's send not failing, leaves the slot active with
   listen sockets bound on two ports det and disp, has_sdr recorded from the message,
   and has sent exactly one ports reply carrying det and disp, where det # disp, both
   lie in the pool and both differ from the slot's control port. *)
C13_ReadyGetsPorts ==
    [][(/\ exch'.kind = "ctrl"
        /\ Len(exch'.msg) = 1
        /\ IsReady(exch'.msg[1])
        /\ g_splitters[exch'.slot].active
        /\ g_splitters[exch'.slot].det_port = 0
        /\ Cardinality(FreeFds) >= 2
        /\ ~exch'.err) =>
           LET s == exch'.slot
               sp == g_splitters'[s]
           IN /\ sp.active
              /\ sp.has_sdr = SaysHasSdr(exch'.msg[1])
              /\ exch'.sent = <<PortsReply(sp.det_port, sp.disp_port)>>
              /\ sp.det_port # sp.disp_port
              /\ sp.det_port \in SPLITTER_PORT_BASE..SPLITTER_PORT_MAX
              /\ sp.disp_port \in SPLITTER_PORT_BASE..SPLITTER_PORT_MAX
              /\ sp.det_port # sp.assigned_port
              /\ sp.disp_port # sp.assigned_port
              /\ sp.det_listen_fd \in DOMAIN fds'
              /\ fds'[sp.det_listen_fd] = Desc("listen", sp.det_port, "none")
              /\ sp.disp_listen_fd \in DOMAIN fds'
              /\ fds'[sp.disp_listen_fd] = Desc("listen", sp.disp_port, "none")]_vars

(* C14: an active slot that has no producer connection is, while the clock runs and
   the loop keeps calling print_status, eventually destroyed, unless its producer
   connects after all; so slots that hellos created and no producer ever used do not
   stay for ever. *)
C14_IdleSlotExpires ==
    \A s \in Slots :
        (g_splitters[s].active /\ g_splitters[s].ctrl_fd < 0)
            ~> (~g_splitters[s].active \/ g_splitters[s].ctrl_fd >= 0)

(* the step took a hello from a rendezvous connection while no slot was free *)
HelloNoSlot ==
    /\ exch'.kind = "rendezvous"
    /\ exch'.msg = HelloMsg \o <<NL>>
    /\ \A s \in Slots : g_splitters[s].active

(* the step took a hello while a slot was free and the port under the cursor was bound *)
HelloNoPort ==
    /\ exch'.kind = "rendezvous"
    /\ exch'.msg = HelloMsg \o <<NL>>
    /\ \E s \in Slots : ~g_splitters[s].active
    /\ g_next_splitter_port \in BoundPorts

(* the step accepted a registry connection while the edge table was full *)
EdgeNoRoom == exch'.kind = "accept" /\ Len(g_edge_nodes) >= MAX_EDGE_NODES

(* no reply was sent, the new connection is closed and every table, count and socket
   is as before the step *)
AsBeforeAccept ==
    /\ exch'.sent = <<>>
    /\ fds' = fds
    /\ list' = list
    /\ g_splitters' = g_splitters
    /\ g_splitter_count' = g_splitter_count
    /\ g_edge_nodes' = g_edge_nodes
    /\ g_services' = g_services

FullListRefuses ==
    Len(list.clients) >= MaxClients =>
        client_list_add(list, LowestFree) = [list |-> list, ret |-> -1]

(* C15 (as amended): a hello that finds no free slot, a hello whose port cannot be bound
   and a registry connection that finds the edge table full are closed with no reply, and
   slots, edges, services, consumers, their counts and the descriptor table (so also the
   bound listen sockets) are as before; a full consumer list refuses a further consumer
   and stays as it is.  The port cursor is as before when no slot was free, and has
   advanced by one port when the port could not be bound. *)
C15_ExhaustionLeavesTables ==
    /\ []FullListRefuses
    /\ [][(HelloNoSlot \/ HelloNoPort \/ EdgeNoRoom) => AsBeforeAccept]_vars
    /\ [][(HelloNoSlot \/ EdgeNoRoom) => g_next_splitter_port' = g_next_splitter_port]_vars
    /\ [][HelloNoPort =>
             g_next_splitter_port' = allocate_splitter_port(g_next_splitter_port).next]_vars

(* C15 as stated: in each of these cases the whole state, the port cursor included, is
   as before the accept *)
C15_StateAsBefore ==
    /\ []FullListRefuses
    /\ [][(HelloNoSlot \/ HelloNoPort \/ EdgeNoRoom) =>
             AsBeforeAccept /\ g_next_splitter_port' = g_next_splitter_port]_vars

(* a hello was just refused because its port, the control port of an active slot, was
   bound, while the other slot was free *)
C15_Witness ==
    /\ exch.kind = "rendezvous"
    /\ exch.msg = HelloMsg \o <<NL>>
    /\ exch.sent = <<>>
    /\ ~exch.err
    /\ \E s, t \in Slots :
          /\ ~g_splitters[s].active
          /\ g_splitters[t].active
          /\ allocate_splitter_port(g_splitters[t].assigned_port).next = g_next_splitter_port
    /\ Cardinality(FreeFds) >= 2

(* a line that is no complete JSON object *)
Malformed(line) == line[1] # "{" \/ line[Len(line)] # "}"

(* an object whose cmd is none of the commands of the registry *)
UnknownCmd(line) ==
    json_get_string(line, Word_cmd, 32).out \notin {Word_helo, Word_bye, Word_list, Word_find}

(* C16: when every line an edge's recv() brought is malformed or carries an unknown
   command, the step leaves the edge table, the service table and the descriptors (so
   the edge's connection too) as they were and sends nothing. *)
C16_ErrorLinesAreDropped ==
    [][(/\ exch'.kind = "disc"
        /\ \A i \in 1..Len(Tokens[exch'.msg]) :
               Malformed(Tokens[exch'.msg][i]) \/ UnknownCmd(Tokens[exch'.msg][i])) =>
           /\ g_edge_nodes' = g_edge_nodes
           /\ g_services' = g_services
           /\ fds' = fds
           /\ exch'.sent = <<>>]_vars

(* C17: every service's edge_idx is the index of an edge that is present *)
C17_NoDanglingEdgeIdx ==
    \A i \in 1..Len(g_services) :
        0 <= g_services[i].edge_idx /\ g_services[i].edge_idx < Len(g_edge_nodes)

(* the first of two edges was just removed and a service of the second edge, renumbered,
   now names index 0, where the second edge is *)
C17_Witness ==
    /\ exch.kind = "edge lost"
    /\ exch.slot = 0
    /\ Len(g_edge_nodes) = 1
    /\ g_edge_nodes[1].ip = PeerIp(2)
    /\ Len(g_services) > 0
    /\ \A i \in 1..Len(g_services) :
           g_services[i].edge_idx = 0 /\ g_services[i].ip = PeerIp(2)

(* C18: no two services have the same id and the same kind *)
C18_IdAndKindUnique ==
    \A i, j \in 1..Len(g_services) :
        (g_services[i].id = g_services[j].id /\ g_services[i].service = g_services[j].service)
            => i = j

(* the second edge just sent a helo for the id and kind of a service of the first edge,
   and the registry holds services of both edges *)
C18_Witness ==
    /\ exch.kind = "disc"
    /\ exch.slot = 1
    /\ exch.msg = HeloLine(<<"a">>, <<"x">>, 8, 10, <<"d">>)
    /\ \E i, j \in 1..Len(g_services) :
          /\ g_services[i].id = <<"a">> /\ g_services[i].service = <<"x">>
          /\ g_services[i].edge_idx = 0
          /\ g_services[i].ctrl_port = 8
          /\ g_services[j].edge_idx = 1

(* the services of a table that have this id and this kind *)
ServicesOf(services, id, service) ==
    {i \in 1..Len(services) : services[i].id = id /\ services[i].service = service}

(* the step processed exactly one line, a helo, from the edge at exch'.slot *)
OneHelo ==
    /\ exch'.kind = "disc"
    /\ Len(Tokens[exch'.msg]) = 1
    /\ Extracted[Tokens[exch'.msg][1]].cmd = Word_helo

(* C19: after a helo of edge E for (id, svc), processed with room in the service table,
   exactly one service (id, svc) is registered, with the port, data port and caps of the
   message and with E's address as its IP; E's service count has grown by one if the
   helo inserted the service and is as before if it updated one. *)
C19_HeloUpserts ==
    [][(OneHelo /\ Len(g_services) < MAX_SERVICES) =>
          LET helo == Extracted[Tokens[exch'.msg][1]]
              E == exch'.slot + 1
              before == ServicesOf(g_services, helo.id, helo.svc)
              after == ServicesOf(g_services', helo.id, helo.svc)
          IN /\ Cardinality(after) = 1
             /\ \A i \in after :
                    /\ g_services'[i].ctrl_port = helo.port
                    /\ g_services'[i].data_port = helo.data
                    /\ g_services'[i].caps = helo.caps
                    /\ g_services'[i].ip = g_edge_nodes[E].ip
             /\ g_edge_nodes'[E].service_count =
                    g_edge_nodes[E].service_count + (IF before = {} THEN 1 ELSE 0)]_vars

(* the step processed exactly one line, a bye, from an edge *)
OneBye ==
    /\ exch'.kind = "disc"
    /\ Len(Tokens[exch'.msg]) = 1
    /\ Extracted[Tokens[exch'.msg][1]].cmd = Word_bye

(* the services of a table that a bye with these fields is to remove *)
Withdrawn(services, bye) ==
    {i \in 1..Len(services) :
        services[i].id = bye.id /\ (bye.svc = <<>> \/ services[i].service = bye.svc)}

(* C20: after a bye no service with the bye's id (and, if the bye names a kind, that
   kind) remains; the services the bye does not match are as before, in their order; and
   every edge's service count has gone down by the number of its services removed. *)
C20_ByeWithdraws ==
    [][OneBye =>
          LET bye == Extracted[Tokens[exch'.msg][1]]
              gone == Withdrawn(g_services, bye)
              Stays(svc) == ~(svc.id = bye.id /\ (bye.svc = <<>> \/ svc.service = bye.svc))
          IN /\ Withdrawn(g_services', bye) = {}
             /\ g_services' = SelectSeq(g_services, Stays)
             /\ Len(g_edge_nodes') = Len(g_edge_nodes)
             /\ \A e \in 1..Len(g_edge_nodes) :
                    g_edge_nodes'[e].service_count =
                        g_edge_nodes[e].service_count
                        - Cardinality({i \in gone : g_services[i].edge_idx = e - 1})]_vars

(* the step processed exactly one line, a list or a find, from an edge *)
OneAsk ==
    /\ exch'.kind = "disc"
    /\ Len(Tokens[exch'.msg]) = 1
    /\ Extracted[Tokens[exch'.msg][1]].cmd \in {Word_list, Word_find}

(* the entries of a reply, one after the other with commas between them *)
RECURSIVE Joined(_)
Joined(entries) ==
    IF entries = <<>> THEN <<>>
    ELSE IF Len(entries) = 1 THEN entries[1]
         ELSE entries[1] \o <<",">> \o Joined(Tail(entries))

(* C21: the edge that sends list gets one reply line that holds every service of the
   registry, and the edge that sends find with kind k one that holds exactly the services
   of kind k; each service once, in the order of the registry; and the query leaves the
   edge table and the service table as they were. *)
C21_QueryAnswersAll ==
    [][OneAsk =>
          LET ask == Extracted[Tokens[exch'.msg][1]]
              Wanted(svc) == ask.cmd = Word_list \/ svc.service = ask.svc
              wanted == SelectSeq(g_services, Wanted)
              entries == [i \in 1..Len(wanted) |-> ServiceEntry(wanted[i])]
          IN /\ exch'.sent = <<ListHead \o Joined(entries) \o <<"]", "}", NL>>>>
             /\ g_services' = g_services
             /\ g_edge_nodes' = g_edge_nodes]_vars

(* C22: whatever an edge sends (helo, bye, list, find, an unknown command or a line that
   is no object), the receive that takes it sets the edge's last_seen to the time of the
   receive. *)
C22_ReceiveRefreshesEdge ==
    [][exch'.kind = "disc" =>
          /\ Len(g_edge_nodes') = Len(g_edge_nodes)
          /\ g_edge_nodes'[exch'.slot + 1].last_seen = now]_vars

(* the step is a status report that runs the sweep of the edges, at time now + 1 *)
SweepRuns == exch'.kind = "sweep"

(* C23: a sweep removes every edge that was last seen more than EDGE_TIMEOUT_SEC ago,
   closes its socket and removes all the services it owns, and removes nothing else: the
   other edges stay in their order with their service counts, and the other services
   stay in their order with their fields, owned by the same edges as before. *)
C23_SweepRemovesExpired ==
    [][SweepRuns =>
          LET Fresh(e) == (now + 1) - e.last_seen <= EDGE_TIMEOUT_SEC
              Owned(svc) == Fresh(g_edge_nodes[svc.edge_idx + 1])
              edges == SelectSeq(g_edge_nodes, Fresh)
              services == SelectSeq(g_services, Owned)
          IN /\ Len(g_edge_nodes') = Len(edges)
             /\ \A i \in 1..Len(edges) :
                    /\ g_edge_nodes'[i].fd = edges[i].fd
                    /\ g_edge_nodes'[i].ip = edges[i].ip
                    /\ g_edge_nodes'[i].service_count = edges[i].service_count
             /\ \A i \in 1..Len(g_edge_nodes) :
                    ~Fresh(g_edge_nodes[i]) => fds'[g_edge_nodes[i].fd] = FreeDesc
             /\ Len(g_services') = Len(services)
             /\ \A i \in 1..Len(services) :
                    /\ [g_services'[i] EXCEPT !.edge_idx = 0] = [services[i] EXCEPT !.edge_idx = 0]
                    /\ g_edge_nodes'[g_services'[i].edge_idx + 1].fd
                           = g_edge_nodes[services[i].edge_idx + 1].fd]_vars

(* a sweep has just removed two edges at once *)
C23_Witness ==
    /\ exch.kind = "sweep"
    /\ exch.slot = 2
    /\ g_edge_nodes = <<>>
    /\ g_services = <<>>

(* the step removed exactly one edge: the one whose socket reported EOF or an error, or
   the one edge that a sweep found expired *)
OneEdgeRemoved ==
    \/ exch'.kind = "edge lost"
    \/ exch'.kind = "sweep" /\ exch'.slot = 1

(* the index of the edge that such a step removes *)
RemovedEdge ==
    IF exch'.kind = "edge lost" THEN exch'.slot
    ELSE CHOOSE k \in 0..(Len(g_edge_nodes) - 1) :
             (now + 1) - g_edge_nodes[k + 1].last_seen > EDGE_TIMEOUT_SEC

(* C24: the removal of edge k closes its socket and removes the services whose edge_idx
   is k and no others; the services that stay keep their fields and their order, and
   their renumbered edge_idx names the edge with the socket and the address it named
   before; the other edges stay in their order; and the reply to a list built from the
   new table holds the entry of none of the removed services. *)
C24_RemovalTakesOwnServices ==
    [][OneEdgeRemoved =>
          LET k == RemovedEdge
              Other(svc) == svc.edge_idx # k
              Own(svc) == svc.edge_idx = k
              stay == SelectSeq(g_services, Other)
              gone == SelectSeq(g_services, Own)
              reply == build_service_list(g_services', NULL)
          IN /\ Len(g_edge_nodes') = Len(g_edge_nodes) - 1
             /\ \A i \in 1..Len(g_edge_nodes') :
                    LET old == g_edge_nodes[IF i <= k THEN i ELSE i + 1]
                    IN /\ g_edge_nodes'[i].fd = old.fd
                       /\ g_edge_nodes'[i].ip = old.ip
                       /\ g_edge_nodes'[i].service_count = old.service_count
             /\ fds'[g_edge_nodes[k + 1].fd] = FreeDesc
             /\ Len(g_services') = Len(stay)
             /\ \A i \in 1..Len(stay) :
                    /\ [g_services'[i] EXCEPT !.edge_idx = 0] = [stay[i] EXCEPT !.edge_idx = 0]
                    /\ g_edge_nodes'[g_services'[i].edge_idx + 1].fd
                           = g_edge_nodes[stay[i].edge_idx + 1].fd
                    /\ g_edge_nodes'[g_services'[i].edge_idx + 1].ip
                           = g_edge_nodes[stay[i].edge_idx + 1].ip
             /\ \A i \in 1..Len(gone) : StrStr(reply, ServiceEntry(gone[i])) = 0]_vars

(* the first of two edges has just closed its socket; the service that stays is the
   second edge's and now carries index 0 *)
C24_Witness ==
    /\ exch.kind = "edge lost"
    /\ exch.slot = 0
    /\ Len(g_edge_nodes) = 1
    /\ g_edge_nodes[1].ip = PeerIp(2)
    /\ g_edge_nodes[1].service_count = 1
    /\ Len(g_services) = 1
    /\ g_services[1].edge_idx = 0
    /\ g_services[1].id = <<"b">>

(* a line the registry is to ignore: it does not begin with a brace, or it is an object
   that has no member cmd or whose cmd is none of the four commands *)
Ignored(line) ==
    \/ line[1] # "{"
    \/ StrStr(line, <<DQ>> \o Word_cmd \o <<DQ>>) = 0
    \/ UnknownCmd(line)

(* C25: when every line that an edge's recv() brought is such a line, the step leaves
   the edge table and the service table as they were, sends nothing and leaves every
   descriptor, the edge's socket among them, as it was. *)
C25_IgnoredLinesChangeNothing ==
    [][(/\ exch'.kind = "disc"
        /\ \A i \in 1..Len(Tokens[exch'.msg]) : Ignored(Tokens[exch'.msg][i])) =>
           /\ g_edge_nodes' = g_edge_nodes
           /\ g_services' = g_services
           /\ fds' = fds
           /\ exch'.sent = <<>>]_vars

(* an edge that has a service registered has just sent a helo behind a blank *)
C25_Witness ==
    /\ exch.kind = "disc"
    /\ exch.msg = IndentedHelo
    /\ exch.sent = <<>>
    /\ Len(g_services) = 1
    /\ g_services[1].id = <<"a">>
    /\ g_edge_nodes[exch.slot + 1].service_count = 1

(* C26: a receive that finds nothing to take, on the socket of the broadcast producer, of
   a slot's producer, of a slot's client or of an edge, leaves every descriptor open and
   every table as it was: the consumer list and the source, the slots, the edges and the
   services. *)
C26_WouldBlockChangesNothing ==
    [][exch'.kind = "again" =>
          /\ fds' = fds
          /\ list' = list
          /\ source_fd' = source_fd
          /\ g_splitters' = g_splitters
          /\ g_splitter_count' = g_splitter_count
          /\ g_edge_nodes' = g_edge_nodes
          /\ g_services' = g_services]_vars

(* a receive has just found nothing to take while a slot has its producer and a client
   connected *)
C26_Witness ==
    /\ exch.kind = "again"
    /\ \E s \in Slots :
          /\ g_splitters[s].active
          /\ Connected(g_splitters[s].ctrl_fd)
          /\ Connected(g_splitters[s].client_fd)

(* C27: once the relay has shut down, it holds no socket any more: every descriptor but
   the standard input is closed, the sockets of the splitter slots among them. *)
C27_ShutdownClosesAll ==
    exch.kind = "shutdown" => \A f \in DOMAIN fds : fds[f].kind \in {"free", "stdin"}

(* the characters the escaping passes on: printable ones, the double quote, the
   backslash, the newline and the carriage return *)
Passed(data) == \A i \in 1..Len(data) : data[i] \notin {TAB, BEL}

(* C28: a payload of characters that the escaping passes on comes back unchanged when
   it is wrapped into an s frame and the d field of the frame is taken and unescaped. *)
C28_EscapeRoundTrip ==
    (exch.kind = "sdr" /\ Passed(exch.msg)) => exch.sent[2] = exch.msg

(* the rings of the stream's clients *)
Rings == {list.clients[i].buffer : i \in 1..Len(list.clients)}

(* the client's ring took back bytes that a send did not accept: it was handed more
   bytes than the producer wrote since the client joined *)
PutBack(c) == c.buffer.written > produced - joined[c.fd]

(* C29: whatever writes, reads and put-backs a ring has seen, its count lies in
   0..capacity, its two indices lie below the capacity, and the write index is the
   read index plus the count, modulo the capacity. *)
C29_RingIndicesConsistent ==
    \A cb \in Rings :
        /\ 0 <= cb.count /\ cb.count <= cb.capacity
        /\ cb.read_idx \in 0..(cb.capacity - 1)
        /\ cb.write_idx \in 0..(cb.capacity - 1)
        /\ cb.write_idx = (cb.read_idx + cb.count) % cb.capacity

(* a ring that has discarded a byte, has been read, has taken bytes back, and whose
   write index has wrapped around to lie before its read index *)
C29_Witness ==
    \E i \in 1..Len(list.clients) :
        LET c == list.clients[i]
        IN /\ c.buffer.overflows > 0
           /\ c.buffer.bytes_sent > 0
           /\ PutBack(c)
           /\ c.buffer.write_idx < c.buffer.read_idx

(* C30: for every ring, the bytes it holds plus the bytes read from it (the bytes_sent
   counter) are the bytes written to it, put-backs included, minus the bytes it
   discarded (the overflows counter). *)
C30_RingAccounting ==
    \A cb \in Rings : cb.count + cb.bytes_sent = cb.written - cb.overflows

(* a ring that holds bytes after a put-back, a discarded byte and a later read *)
C30_Witness ==
    \E i \in 1..Len(list.clients) :
        LET c == list.clients[i]
        IN /\ PutBack(c)
           /\ c.buffer.overflows > 0
           /\ c.buffer.bytes_sent >= 2
           /\ c.buffer.count > 0

(* a broadcast of n bytes into the ring of client i, seen as a step: the ring before
   and after, the bytes before followed by the new bytes, and the number of bytes by
   which they exceed the capacity *)
WriteStep(i) ==
    LET n == produced' - produced
        cb == list.clients[i].buffer
    IN [n |-> n, old |-> cb, new |-> list'.clients[i].buffer,
        all |-> Contents(cb) \o [k \in 1..n |-> produced + k],
        excess |-> cb.count + n - cb.capacity]

(* C31 as stated: an overflowing write of `written` bytes into a ring that holds
   old_count bytes discards written - capacity - old_count bytes and raises the
   overflow counter by that number. *)
C31_DiscardsWrittenMinusHeld ==
    [][produced' > produced =>
          \A i \in 1..Len(list.clients) :
              \E w \in {WriteStep(i)} :
                 w.excess > 0 =>
                    /\ w.new.overflows = w.old.overflows + (w.n - w.old.capacity - w.old.count)
                    /\ w.new.count = Len(w.all) - (w.n - w.old.capacity - w.old.count)]_vars

(* C31, amended: an overflowing write of `written` bytes into a ring that holds
   old_count bytes discards the old_count + written - capacity oldest bytes (of the
   held bytes followed by the written ones), keeps the rest in order, and raises the
   overflow counter by that number. *)
C31_DiscardsExcess ==
    [][produced' > produced =>
          \A i \in 1..Len(list.clients) :
              \E w \in {WriteStep(i)} :
                 w.excess > 0 =>
                    /\ w.new.overflows = w.old.overflows + w.excess
                    /\ Contents(w.new) = SubSeq(w.all, w.excess + 1, Len(w.all))]_vars

(* a ring that was read, so that its oldest byte is not at index 0, and then overflowed *)
C31_Witness ==
    \E i \in 1..Len(list.clients) :
        LET cb == list.clients[i].buffer
        IN /\ cb.overflows > 0
           /\ cb.bytes_sent > 0
           /\ cb.count = cb.capacity
           /\ Contents(cb) = [k \in 1..cb.capacity |-> produced - cb.capacity + k]

(* C32: a read of at most max bytes from a ring takes min(count, max) bytes, the
   oldest ones in the order they were written; count goes down and bytes_sent goes up
   by that number; the write index, the overflow counter and the bytes that remain
   are as before. *)
C32_ReadTakesOldest ==
    \A cb \in Rings :
        \A max \in 0..(Capacity + 1) :
            LET r == client_buffer_read(cb, max)
                k == Min(cb.count, max)
            IN /\ r.out = SubSeq(Contents(cb), 1, k)
               /\ r.cb.count = cb.count - k
               /\ r.cb.bytes_sent = cb.bytes_sent + k
               /\ r.cb.write_idx = cb.write_idx
               /\ r.cb.overflows = cb.overflows
               /\ Contents(r.cb) = SubSeq(Contents(cb), k + 1, cb.count)

(* a full ring that was read before and whose oldest byte is not at index 0, so that
   a read of all its bytes passes the end of the array *)
C32_Witness ==
    \E cb \in Rings :
        /\ cb.count = cb.capacity
        /\ cb.read_idx > 0
        /\ cb.bytes_sent > 0

(* C33: a receive of n > 0 bytes from the producer appends these bytes, as they are
   and in order, to the ring of every consumer attached at that moment (a ring keeps
   the newest `capacity` of its bytes), leaves the set of consumers as it is, and
   raises the stream's bytes-relayed counter by n, whatever the number of consumers. *)
C33_ReceiveReachesEveryRing ==
    [][produced' > produced =>
          /\ list'.total_bytes_relayed = list.total_bytes_relayed + (produced' - produced)
          /\ Len(list'.clients) = Len(list.clients)
          /\ \A i \in 1..Len(list.clients) :
                \E w \in {WriteStep(i)} :
                   /\ list'.clients[i].fd = list.clients[i].fd
                   /\ list'.clients[i].header_sent = list.clients[i].header_sent
                   /\ Contents(w.new) = SubSeq(w.all, Max(w.excess, 0) + 1, Len(w.all))]_vars

(* bytes were relayed while no consumer was attached, and later to two consumers, one
   of which joined after the other *)
C33_Witness ==
    /\ Len(list.clients) = 2
    /\ list.total_bytes_relayed = produced
    /\ 0 < joined[list.clients[1].fd]
    /\ joined[list.clients[1].fd] < joined[list.clients[2].fd]
    /\ joined[list.clients[2].fd] < produced
    /\ list.clients[2].buffer.count > 0

(* C34: a rendezvous connection that brings a hello while a slot is free and some port
   of the pool has no listener is sent an assign reply that names such a port (unless
   the send itself fails): a port that cannot be bound is passed over. *)
C34_AllocatorRetries ==
    [][(/\ exch'.kind = "rendezvous"
        /\ exch'.msg = HelloMsg \o <<NL>>
        /\ \E s \in Slots : ~g_splitters[s].active
        /\ (SPLITTER_PORT_BASE..SPLITTER_PORT_MAX) \ BoundPorts # {}
        /\ Cardinality(FreeFds) >= 2
        /\ ~exch'.err) =>
           /\ Len(exch'.sent) = 1
           /\ \E p \in (SPLITTER_PORT_BASE..SPLITTER_PORT_MAX) \ BoundPorts :
                  exch'.sent[1] = AssignReply(p)]_vars

(* the step processed one helo for a service that is not registered while the service
   table is full *)
HeloOverCap ==
    /\ OneHelo
    /\ Len(g_services) >= MAX_SERVICES
    /\ ServicesOf(g_services, Extracted[Tokens[exch'.msg][1]].id,
                  Extracted[Tokens[exch'.msg][1]].svc) = {}

(* C35: a stream never has more consumers than MAX_CLIENTS, there are never more active
   slots than MAX_SPLITTERS, more edges than MAX_EDGE_NODES or more services than
   MAX_SERVICES; and a helo for a new service that finds the service table full leaves
   the services and every edge's service count as they are. *)
C35_TablesWithinCaps ==
    /\ [](/\ Len(list.clients) <= MaxClients
          /\ Cardinality({s \in Slots : g_splitters[s].active}) <= MaxSplitters
          /\ g_splitter_count <= MaxSplitters
          /\ Len(g_edge_nodes) <= MAX_EDGE_NODES
          /\ Len(g_services) <= MAX_SERVICES)
    /\ [][HeloOverCap =>
             /\ g_services' = g_services
             /\ Len(g_edge_nodes') = Len(g_edge_nodes)
             /\ \A e \in 1..Len(g_edge_nodes) :
                    g_edge_nodes'[e].service_count = g_edge_nodes[e].service_count]_vars

(* a helo for one service more than the table holds was just turned away, while the
   consumer list is full as well *)
C35_Witness ==
    /\ exch.kind = "disc"
    /\ exch.msg = HeloLine(<<"b">>, <<"y">>, 7, 9, <<"c">>)
    /\ Len(g_services) = MAX_SERVICES
    /\ ServicesOf(g_services, <<"b">>, <<"y">>) = {}
    /\ Len(list.clients) = MaxClients

(* the messages of a piece of the control stream: what lies before each newline, from
   the newline before it on, empty lines left out; and what lies after the last newline *)
NewlinesOf(buf) == {i \in 1..Len(buf) : buf[i] = NL}
LineBefore(buf, p) ==
    LET before == {q \in NewlinesOf(buf) : q < p}
        from == IF before = {} THEN 1 ELSE 1 + CHOOSE q \in before : \A r \in before : r <= q
    IN SubSeq(buf, from, p - 1)
RECURSIVE LinesUpTo(_, _)
LinesUpTo(buf, p) ==
    IF p = 0 THEN <<>>
    ELSE IF buf[p] = NL /\ LineBefore(buf, p) # <<>>
         THEN Append(LinesUpTo(buf, p - 1), LineBefore(buf, p))
         ELSE LinesUpTo(buf, p - 1)
MessagesOf(buf) == LinesUpTo(buf, Len(buf))
TailOf(buf) ==
    LET nls == NewlinesOf(buf)
    IN IF nls = {} THEN buf
       ELSE SubSeq(buf, 1 + (CHOOSE q \in nls : \A r \in nls : r <= q), Len(buf))

(* C36: wherever the receives cut the producer's control stream, a receive that leaves
   the slot in being processes, in stream order, exactly the messages whose newline
   has arrived with it or before it and that were not processed yet, keeps the bytes
   after the last newline as the start of the next message, and sets last_seen to the
   time of the receive. *)
C36_FramesEveryMessage ==
    [][\A s \in Slots :
          (/\ g_splitters[s].active
           /\ g_splitters'[s].active
           /\ Len(in_flight'[s]) < Len(in_flight[s])) =>
              LET got == SubSeq(in_flight[s], 1, Len(in_flight[s]) - Len(in_flight'[s]))
                  buf == g_splitters[s].recv_buf \o got
                  handled == IF exch'.kind = "ctrl" /\ exch'.slot = s THEN exch'.msg ELSE <<>>
              IN /\ handled = MessagesOf(buf)
                 /\ g_splitters'[s].recv_buf = TailOf(buf)
                 /\ g_splitters'[s].last_seen = now]_vars

(* a receive, later than the slot's creation, has just brought the end of one message,
   a whole second message and the beginning of a third *)
C36_Witness ==
    /\ exch.kind = "ctrl"
    /\ Len(exch.msg) = 2
    /\ exch.msg[1] = PongMsg
    /\ g_splitters[exch.slot].recv_buf # <<>>
    /\ g_splitters[exch.slot].last_seen = now
    /\ now > 0

(* C37: every edge's service_count is the number of services whose edge_idx is the
   index of this edge. *)
C37_ServiceCountMatches ==
    \A e \in 1..Len(g_edge_nodes) :
        g_edge_nodes[e].service_count =
            Cardinality({i \in 1..Len(g_services) : g_services[i].edge_idx = e - 1})

(* the first edge accepted is gone and the second, renumbered to index 0, owns a
   service; the third edge, now at index 1 and owning nothing, has just sent a helo
   that updated this service *)
C37_Witness ==
    /\ exch.kind = "disc"
    /\ exch.slot = 1
    /\ exch.msg = HeloLine(<<"a">>, <<"x">>, 8, 10, <<"d">>)
    /\ Len(g_edge_nodes) = 2
    /\ g_edge_nodes[1].ip = PeerIp(2)
    /\ g_edge_nodes[1].service_count > 0
    /\ g_edge_nodes[2].service_count = 0
    /\ \E i \in 1..Len(g_services) :
          /\ g_services[i].id = <<"a">> /\ g_services[i].service = <<"x">>
          /\ g_services[i].ctrl_port = 8
          /\ g_services[i].edge_idx = 0

(* C38: of an active slot that has processed no ready message yet (its det_port is
   still 0), the handles of the detector and display listen sockets and source sockets
   hold the no-socket value, a negative number, so that none of them names a
   descriptor the event loop would poll or close. *)
C38_UnreadySlotHoldsNoSocket ==
    \A s \in Slots :
        (g_splitters[s].active /\ g_splitters[s].det_port = 0) =>
            /\ g_splitters[s].det_listen_fd < 0
            /\ g_splitters[s].det_source_fd < 0
            /\ g_splitters[s].disp_listen_fd < 0
            /\ g_splitters[s].disp_source_fd < 0
            /\ Polled \cap {g_splitters[s].det_listen_fd, g_splitters[s].det_source_fd,
                            g_splitters[s].disp_listen_fd, g_splitters[s].disp_source_fd} = {}

(* the open listen sockets bound to ports of the pool and the open sockets accepted on
   the detector and display ports of slots *)
SlotSockets ==
    {f \in DOMAIN fds :
        \/ fds[f].kind = "listen" /\ fds[f].port \in SPLITTER_PORT_BASE..SPLITTER_PORT_MAX
        \/ fds[f].kind = "peer" /\ fds[f].pipe \in {"det", "disp"}}

(* the listen sockets and data-source sockets slot s records *)
RecordedIn(s) ==
    {g_splitters[s].listen_fd, g_splitters[s].det_listen_fd, g_splitters[s].det_source_fd,
     g_splitters[s].disp_listen_fd, g_splitters[s].disp_source_fd}

(* C39: every open listen socket on a port of the pool and every open socket accepted on
   a slot's detector or display port is recorded in an active slot: a second ready
   message, a second connection to a data port and the destruction of a slot leave no
   such socket open and unrecorded. *)
C39_SlotSocketsRecorded ==
    SlotSockets \subseteq UNION {RecordedIn(s) : s \in {i \in Slots : g_splitters[i].active}}

(* the commands sent so far are the first ones of the start sequence *)
InStartOrder ==
    LET seq == SetupCommands \o <<"START">>
        n == IF Len(exch.cmds) < Len(seq) THEN Len(exch.cmds) ELSE Len(seq)
    IN SubSeq(exch.cmds, 1, n) = SubSeq(seq, 1, n)

(* C40: sdr_controller sends commands only on its established connection, and START
   only after VER, STATUS, SET_FREQ and SET_GAIN in that order; between two commands
   no byte of an earlier response line is left unread; a run that connected exits with
   status 0 only if sdr_server's answer to START begins with OK. *)
C40_StartSequence ==
    Ctl =>
       /\ exch.cmds # <<>> => exch.pc = "exit" \/ exch.connected
       /\ InStartOrder
       /\ exch.inbox = <<>>
       /\ (exch.status = 0 /\ ~exch.help) => BeginsWithOK(exch.start_answer)

====
